---- MODULE Spec2Model ----
(***************************************************************************)
(* A model of the Spartic core: the SynchronizedKeystream primitive        *)
(* (src/src/synchronized_keystream.js) and the SparticSession state        *)
(* machine (src/src/spartic_session.js), for a group of NumPeers           *)
(* participants that each run one session.                                 *)
(*                                                                         *)
(* Modelling conventions                                                   *)
(*  - null / undefined is the empty sequence <<>>, a present value x is    *)
(*    the one-element sequence <<x>>.                                      *)
(*  - a Buffer is the record [length, data]: its length in bytes and its   *)
(*    first byte (0 for an empty buffer).  XOR acts on every byte position *)
(*    alike, so one position carries the algebra.                          *)
(*  - a method is an operator from the session record (and the arguments)  *)
(*    to [s, thrown]: the session as the call leaves it, and the exception *)
(*    that ended the call ("none" for a normal return).  Assignments made  *)
(*    before a throw are kept, as in JavaScript.                           *)
(*  - a participant's public key is its index in Peers; a shared secret is *)
(*    a positive integer naming a 32-byte value.                           *)
(*                                                                         *)
(* The SparticPeer router (src/src/spartic_peer.js) is modelled for        *)
(* NumNodes of the participants.  Its transport is its environment: the    *)
(* 'connection' and 'close' events and the frames that arrive are inputs.  *)
(* There a public key is a Buffer, the record [bytes, object], because the *)
(* router's Maps and indexOf find a Buffer by object.                      *)
(***************************************************************************)
EXTENDS Integers, Sequences, FiniteSets, TLC

\* ------------------------------------------------------------------------
\* Bounds of the model
\* ------------------------------------------------------------------------
NumPeers == 3        \* participants in the group (N)
MaxInject == 2       \* inbound calls made by a misbehaving peer, in total
MaxSeq == 1          \* largest sequence number a misbehaving peer names
MaxPush == 3         \* secrets pushed by the keystream harness
MaxLen == 1          \* longest read of the keystream harness, in bytes
MaxBlocks == 3       \* blocks that peers' implementations send, in total
MaxGrow == 2         \* pushes onto the secrets arrays around the keystream under test
NumNodes == 2        \* participants that run a SparticPeer router
MaxSessions == 2     \* createSession calls, in total
MaxConn == 2         \* 'connection' events, in total
MaxInbound == 1      \* frames that arrive from other implementations, in total
MaxFlush == 2        \* calls of flush(), in total

\* ------------------------------------------------------------------------
\* Program constants
\* ------------------------------------------------------------------------
BLOCK_SIZE == 4096
NONCEBYTES == 24

Peers == 1 .. NumPeers
Others(p) == Peers \ {p}

\* ------------------------------------------------------------------------
\* Bytes and buffers
\* ------------------------------------------------------------------------
RECURSIVE XorNat(_, _)
\* bitwise exclusive or of two naturals (JavaScript's a ^ b on bytes)
XorNat(a, b) ==
  IF a = 0 THEN b
  ELSE IF b = 0 THEN a
  ELSE ((a + b) % 2) + 2 * XorNat(a \div 2, b \div 2)

Buf(len, d) == [length |-> len, data |-> IF len = 0 THEN 0 ELSE d]

Max(a, b) == IF a >= b THEN a ELSE b

\* buffer-xor: a new buffer, byte i being a[i] ^ b[i]
buffer_xor(a, b) == Buf(Max(a.length, b.length), XorNat(a.data, b.data))

RECURSIVE xor_all(_)
\* xor_all.js: null for no buffers, the buffer itself for one, else the
\* left fold of buffer_xor
xor_all(buffers) ==
  IF Len(buffers) = 0 THEN <<>>
  ELSE IF Len(buffers) = 1 THEN <<buffers[1]>>
  ELSE <<buffer_xor(xor_all(SubSeq(buffers, 1, Len(buffers) - 1))[1],
                    buffers[Len(buffers)])>>

\* ------------------------------------------------------------------------
\* JavaScript numbers and the 32-bit conversions of read()
\* ------------------------------------------------------------------------
Two15 == 2 ^ 15
Two16 == 2 ^ 16

\* the JavaScript number hi * 2^16 + lo
Num(hi, lo) == [hi |-> hi, lo |-> lo]
NumOf(n) == Num(n \div Two16, n % Two16)

\* ToInt32 of a JavaScript value: undefined converts to 0, a number is
\* reduced modulo 2^32 into [-2^31, 2^31 - 1]
ToInt32(v) ==
  IF v = <<>> THEN 0
  ELSE LET h == v[1].hi % Two16
       IN  IF h >= Two15 THEN (h - Two16) * Two16 + v[1].lo
           ELSE h * Two16 + v[1].lo

\* x >> n: the shift count is taken modulo 32, so >> 32 shifts by 0
ShiftRight(v, n) == ToInt32(v) \div (2 ^ (n % 32))

\* x & 0xFFFFFFFF: both operands go through ToInt32 and 0xFFFFFFFF is -1,
\* all ones, so the result is ToInt32(x)
AndAllOnes(v) == ToInt32(v)

\* Buffer.writeUInt32BE(value, offset): a RangeError unless 0 <= value < 2^32
\* (a value from ToInt32 is below 2^31, so only the sign can be wrong)
writeUInt32BE_ok(value) == value >= 0

\* ------------------------------------------------------------------------
\* SynchronizedKeystream
\* ------------------------------------------------------------------------
\* the nonce as NONCEBYTES / 4 big-endian 32-bit words; read() writes the
\* words at byte offsets 0 and 4 of a zeroed buffer
Nonce(w0, w4) == [i \in 1 .. (NONCEBYTES \div 4) |->
                    IF i = 1 THEN w0 ELSE IF i = 2 THEN w4 ELSE 0]

RECURSIVE MixWords(_, _)
MixWords(ws, h) ==
  IF Len(ws) = 0 THEN h
  ELSE MixWords(Tail(ws),
                ((h * 31) + ((Head(ws) % 251) * 7) + ((Head(ws) \div Two16) % 241)) % 65521)

\* xsalsa20(nonce, key): the first byte of the cipher stream, a fixed
\* pseudo-random function of the whole nonce and the key
Cipher(nonce, key) ==
  (((MixWords(nonce, 17) + 1) * ((key * 2) + 1) * 37) + (key * 101)) % 256

\* stream.update as it would be if it added the cipher stream byte by byte
StreamUpdate_Add(nonce, key, scratch) ==
  Buf(scratch.length, (scratch.data + Cipher(nonce, key)) % 256)

\* stream.update as it would be if it returned its input
StreamUpdate_Ignore(nonce, key, scratch) == scratch

\* stream.update(scratch): the input XORed with the cipher stream
StreamUpdate(nonce, key, scratch) ==
  Buf(scratch.length, XorNat(scratch.data, Cipher(nonce, key)))

RECURSIVE XorStreams(_, _, _)
\* the loop of read(): scratch = stream.update(scratch) for every key
XorStreams(keys, nonce, scratch) ==
  IF Len(keys) = 0 THEN scratch
  ELSE XorStreams(Tail(keys), nonce, StreamUpdate(nonce, Head(keys), scratch))

\* new SynchronizedKeystream(shared_secrets): keeps its own copy of the list
SynchronizedKeystream(shared_secrets) == SubSeq(shared_secrets, 1, Len(shared_secrets))

\* the nonce read() prepares for a sequence number (when both writes succeed)
nonceFor(sequence_number) ==
  Nonce(ShiftRight(sequence_number, 32), AndAllOnes(sequence_number))

\* read(sequence_number, length) on the keystream holding `keys`
read(keys, sequence_number, length) ==
  LET w0 == ShiftRight(sequence_number, 32)
      w4 == AndAllOnes(sequence_number)
  IN  IF ~writeUInt32BE_ok(w0) \/ ~writeUInt32BE_ok(w4)
      THEN [thrown |-> "RangeError", value |-> <<>>]
      ELSE [thrown |-> "none",
            value |-> <<XorStreams(keys, Nonce(w0, w4), Buf(length, 0))>>]

\* ------------------------------------------------------------------------
\* SparticSession
\* ------------------------------------------------------------------------
\* Outbound messages: ['key', sharedKey] | ['block', sequenceNumber, block]
\* | ['error', message]
KeyMsg(k) == [type |-> "key", sharedKey |-> k]
BlockMsg(n, b) == [type |-> "block", sequenceNumber |-> n, block |-> b]
ErrorMsg(text) == [type |-> "error", message |-> text]

\* Identifiers that some file of the repository declares at global scope.
\* receiveKey assigns to `secrets` and advanceRound to `blocks` without a
\* declaration; a class body is strict code, where such an assignment is a
\* ReferenceError unless the name exists globally.
DeclaredGlobals == {}

Return(s) == [s |-> s, thrown |-> "none"]
Throw(s, e) == [s |-> s, thrown |-> e]

\* this.queues.get(pubkey).push(msg)
Enqueue(s, pubkey, msg) == [s EXCEPT !.queues[pubkey] = Append(@, msg)]

\* crypto.randomBytes(SECRET_SIZE) drawn by participant p for peer q: a
\* fresh value, distinct from every other draw
randomBytes(p, q) == ((p - 1) * NumPeers) + q

\* the constructor's otherPubkeys argument for participant p: the other
\* members in a fixed order
otherPubkeysOf(p) == [i \in 1 .. (NumPeers - 1) |-> IF i < p THEN i ELSE i + 1]

\* a round record {sequenceNumber, theirBlocks: {}, ourBlock: null}
NewRound(n) == [sequenceNumber |-> n, theirBlocks |-> <<>>, ourBlock |-> <<>>]

\* the constructor as it would be without its final sendKeys() call
SparticSession_NoSendKeys(p) ==
  [otherPubkeys |-> otherPubkeysOf(p),
   ourSharedKeys |-> [q \in Others(p) |-> randomBytes(p, q)],
   theirSharedKeys |-> [q \in Others(p) |-> <<>>],
   keystream |-> <<>>,
   currentRound |-> <<>>,
   nextRound |-> NewRound(0),
   queues |-> [q \in Others(p) |-> <<>>],
   results |-> <<>>]

\* new SparticSession(otherPubkeys), sendKeys() included
SparticSession(p) ==
  [otherPubkeys |-> otherPubkeysOf(p),
   ourSharedKeys |-> [q \in Others(p) |-> randomBytes(p, q)],
   theirSharedKeys |-> [q \in Others(p) |-> <<>>],
   keystream |-> <<>>,
   currentRound |-> <<>>,
   nextRound |-> NewRound(0),
   queues |-> [q \in Others(p) |-> <<KeyMsg(randomBytes(p, q))>>],
   results |-> <<>>]

\* the missingKeys count of receiveKey
missingKeys(s) ==
  Cardinality({i \in DOMAIN s.otherPubkeys :
                 s.theirSharedKeys[s.otherPubkeys[i]] = <<>>})

\* the secrets list of receiveKey: for every peer in otherPubkeys order,
\* ourSharedKeys then theirSharedKeys
RECURSIVE secretsList(_, _)
secretsList(s, i) ==
  IF i > Len(s.otherPubkeys) THEN <<>>
  ELSE <<s.ourSharedKeys[s.otherPubkeys[i]],
         s.theirSharedKeys[s.otherPubkeys[i]][1]>> \o secretsList(s, i + 1)

\* the blocks list of advanceRound: ourBlock, then every peer's block
RECURSIVE theirBlocksList(_, _)
theirBlocksList(s, i) ==
  IF i > Len(s.otherPubkeys) THEN <<>>
  ELSE <<s.currentRound[1].theirBlocks[s.otherPubkeys[i]]>>
       \o theirBlocksList(s, i + 1)

\* the tail of advanceRound: swap the round buffers
swapRounds(s) ==
  [s EXCEPT !.currentRound = <<s.nextRound>>,
            !.nextRound = NewRound(s.nextRound.sequenceNumber + 1)]

\* advanceRound()
advanceRound(s) ==
  IF s.currentRound # <<>>
  THEN IF "blocks" \notin DeclaredGlobals
       THEN Throw(s, "ReferenceError")
       ELSE Return(swapRounds(
              [s EXCEPT !.results =
                 Append(@, xor_all(<<s.currentRound[1].ourBlock[1]>>
                                   \o theirBlocksList(s, 1))[1])]))
  ELSE Return(swapRounds(s))

\* receiveKey as it would be if a duplicate key replaced the stored one
\* before the error is queued
receiveKey_Overwrite(s, pubkey, sharedKey) ==
  IF s.theirSharedKeys[pubkey] # <<>>
  THEN Return(Enqueue([s EXCEPT !.theirSharedKeys[pubkey] = <<sharedKey>>],
                      pubkey, ErrorMsg("public key already received")))
  ELSE LET s1 == [s EXCEPT !.theirSharedKeys[pubkey] = <<sharedKey>>]
       IN  IF missingKeys(s1) > 0
           THEN Return(s1)
           ELSE Throw(s1, "ReferenceError")

\* receiveKey as it would be if a first key were answered with our key again
receiveKey_Resend(s, pubkey, sharedKey) ==
  IF s.theirSharedKeys[pubkey] # <<>>
  THEN Return(Enqueue(s, pubkey, ErrorMsg("public key already received")))
  ELSE LET s1 == Enqueue([s EXCEPT !.theirSharedKeys[pubkey] = <<sharedKey>>],
                         pubkey, KeyMsg(s.ourSharedKeys[pubkey]))
       IN  IF missingKeys(s1) > 0
           THEN Return(s1)
           ELSE Throw(s1, "ReferenceError")

\* receiveKey(pubkey, sharedKey)
receiveKey(s, pubkey, sharedKey) ==
  IF s.theirSharedKeys[pubkey] # <<>>
  THEN Return(Enqueue(s, pubkey, ErrorMsg("public key already received")))
  ELSE LET s1 == [s EXCEPT !.theirSharedKeys[pubkey] = <<sharedKey>>]
       IN  IF missingKeys(s1) > 0
           THEN Return(s1)
           ELSE IF "secrets" \notin DeclaredGlobals
                THEN Throw(s1, "ReferenceError")
                ELSE advanceRound(
                       [s1 EXCEPT !.keystream =
                          <<SynchronizedKeystream(secretsList(s1, 1))>>])

\* the round object a receiveBlockForRound call was handed
RoundOf(s, which) == IF which = "currentRound" THEN s.currentRound[1] ELSE s.nextRound

StoreBlock(s, which, pubkey, block) ==
  IF which = "currentRound"
  THEN [s EXCEPT !.currentRound[1].theirBlocks = (pubkey :> block) @@ @]
  ELSE [s EXCEPT !.nextRound.theirBlocks = (pubkey :> block) @@ @]

\* receiveBlockForRound(pubkey, block, round); the size test reads
\* this.prototype.BLOCK_SIZE, and a session object has no `prototype`
receiveBlockForRound(s, pubkey, block, which) ==
  IF pubkey \in DOMAIN RoundOf(s, which).theirBlocks
  THEN Return(Enqueue(s, pubkey, ErrorMsg("block is already here")))
  ELSE IF "prototype" \notin DOMAIN s
       THEN Throw(s, "TypeError")
       ELSE IF block.length # s.prototype.BLOCK_SIZE
            THEN Return(Enqueue(s, pubkey, ErrorMsg("block is the wrong size")))
            ELSE Return(StoreBlock(s, which, pubkey, block))

\* the completion test at the end of receiveBlock; its loop reads
\* this.theirBlocks[pubkey], and a session object has no `theirBlocks`
checkRoundDone(r) ==
  IF r.thrown # "none" THEN r
  ELSE IF r.s.currentRound = <<>> THEN r
  ELSE IF r.s.currentRound[1].ourBlock = <<>> THEN r
  ELSE IF Len(r.s.otherPubkeys) = 0 THEN advanceRound(r.s)
  ELSE IF "theirBlocks" \notin DOMAIN r.s THEN Throw(r.s, "TypeError")
  ELSE IF \E i \in DOMAIN r.s.otherPubkeys :
            r.s.otherPubkeys[i] \notin DOMAIN r.s.theirBlocks
       THEN r
       ELSE advanceRound(r.s)

\* receiveBlock as it would be without the final else: every block that is
\* not for the current round is taken to be for the next one
receiveBlock_NoWindow(s, pubkey, sequenceNumber, block) ==
  IF s.currentRound # <<>> /\ sequenceNumber = s.currentRound[1].sequenceNumber
  THEN checkRoundDone(receiveBlockForRound(s, pubkey, block, "currentRound"))
  ELSE checkRoundDone(receiveBlockForRound(s, pubkey, block, "nextRound"))

\* receiveBlock(pubkey, sequenceNumber, block)
receiveBlock(s, pubkey, sequenceNumber, block) ==
  IF s.currentRound # <<>> /\ sequenceNumber = s.currentRound[1].sequenceNumber
  THEN checkRoundDone(receiveBlockForRound(s, pubkey, block, "currentRound"))
  ELSE IF sequenceNumber = s.nextRound.sequenceNumber
       THEN checkRoundDone(receiveBlockForRound(s, pubkey, block, "nextRound"))
       ELSE Return(Enqueue(s, pubkey,
                           ErrorMsg("block is for an unacceptable round")))

RECURSIVE EnqueueAll(_, _, _)
\* the loop of participateInRound: one message per peer, in otherPubkeys order
EnqueueAll(s, i, msg) ==
  IF i > Len(s.otherPubkeys) THEN s
  ELSE EnqueueAll(Enqueue(s, s.otherPubkeys[i], msg), i + 1, msg)

\* the argument participateInRound passes to keystream.read:
\* this.sequenceNumber, a property the session object does not have
readArgument(s) ==
  IF "sequenceNumber" \in DOMAIN s THEN <<NumOf(s.sequenceNumber)>> ELSE <<>>

\* participateInRound as it would be if the block were queued before the
\* round is looked at
participateInRound_QueueFirst(s, messageBuffer) ==
  IF messageBuffer.length # BLOCK_SIZE
  THEN Throw(s, "Error: Message to send is the wrong length")
  ELSE IF s.currentRound = <<>>
  THEN Throw(EnqueueAll(s, 1, BlockMsg(s.nextRound.sequenceNumber, messageBuffer)),
             "Error: No round is in progress; cannot send message")
  ELSE Throw(s, "Error: Message already sent this round; cannot send message")

\* participateInRound(messageBuffer)
participateInRound(s, messageBuffer) ==
  IF messageBuffer.length # BLOCK_SIZE
  THEN Throw(s, "Error: Message to send is the wrong length")
  ELSE IF s.currentRound = <<>>
  THEN Throw(s, "Error: No round is in progress; cannot send message")
  ELSE IF s.currentRound[1].ourBlock # <<>>
  THEN Throw(s, "Error: Message already sent this round; cannot send message")
  ELSE LET ks == read(s.keystream[1], readArgument(s), BLOCK_SIZE)
       IN  IF ks.thrown # "none" THEN Throw(s, ks.thrown)
           ELSE LET ourBlock == buffer_xor(ks.value[1], messageBuffer)
                    s1 == [s EXCEPT !.currentRound[1].ourBlock = <<ourBlock>>]
                IN  Return(EnqueueAll(s1, 1,
                      BlockMsg(s1.currentRound[1].sequenceNumber, ourBlock)))

\* the keystream.read call a participateInRound(messageBuffer) makes: <<>>
\* when a precondition throws first, else <<its sequence argument>>
readCall(s, messageBuffer) ==
  IF \/ messageBuffer.length # BLOCK_SIZE
     \/ s.currentRound = <<>>
     \/ s.currentRound[1].ourBlock # <<>>
  THEN <<>>
  ELSE <<readArgument(s)>>

\* readyToParticipate as it would be if it looked at the keys, not the round
readyToParticipate_WhenKeyed(s) == missingKeys(s) = 0

\* readyToParticipate()
readyToParticipate(s) ==
  IF s.currentRound = <<>> THEN FALSE
  ELSE IF s.currentRound[1].ourBlock # <<>> THEN FALSE
  ELSE TRUE

\* popResult(): the session it leaves and the value it returns (<<>> is null)
popResult(s) ==
  IF Len(s.results) > 0
  THEN [s |-> [s EXCEPT !.results = Tail(@)], value |-> <<Head(s.results)>>]
  ELSE [s |-> s, value |-> <<>>]

\* ------------------------------------------------------------------------
\* The group: one session per participant, and what is called on them
\* ------------------------------------------------------------------------
VARIABLES
  sess,       \* sess[p]: the SparticSession object of participant p
  call,       \* the last method call made on any session, and how it ended
  pre,        \* the session of that call as it was when the call began
  injected,   \* inbound calls made so far on behalf of a misbehaving peer
  offered,    \* offered[p]: the first BLOCK_SIZE message p's caller passed to
              \* participateInRound once p held every peer's key
  ksSecrets,  \* keystream harness: peer_secrets[i], one list per participant
  ksOut,      \* keystream harness: the last read of every participant
  heard,      \* heard[q][from]: how many blocks of peer `from`, those of its
              \* rounds 0 .. heard[q][from] - 1 in order, reached q's receiveBlock
  taken,      \* taken[p]: the results p's caller got from popResult, in order
  sent,       \* sent[p][q]: the messages popMessage(q) returned to p's
              \* caller, in order
  kst,        \* the keystream object under test: kst.obj the object (<<>>
              \* before it is constructed), kst.src the caller's array it was
              \* built from, kst.first and kst.last its first and latest read,
              \* kst.between whether a read with other arguments was made,
              \* kst.mutated whether the caller's array has changed since
  rt          \* the SparticPeer routers: rt.node[n] the router of participant
              \* n, rt.net[n][m] the frames n handed to the transport for m
              \* and not yet arrived, rt.call the last handler that ran

\* the variables that the actions of the group and of the keystream harness
\* leave alone
extra == <<sent, kst, rt>>

vars == <<sess, call, pre, injected, offered, ksSecrets, ksOut, heard, taken, extra>>

\* a secret no session drew
ForgedKey == (NumPeers * NumPeers) + 1

\* what the local caller may pass to participateInRound
Messages == {Buf(BLOCK_SIZE, 0), Buf(BLOCK_SIZE, 66), Buf(BLOCK_SIZE - 1, 66)}

\* what a misbehaving peer may send
InjectKeys(from, to) == {randomBytes(from, to), ForgedKey}
InjectBlocks == {Buf(BLOCK_SIZE, 66), Buf(BLOCK_SIZE - 1, 66)}
InjectSeqs == 0 .. MaxSeq

\* A call record: the method, the session it ran on, the peer it names (0 for
\* a local call), its sequence number and buffer length (-1 for none), the
\* exception that ended it, and for participateInRound the round that was
\* current when it was called and the argument it passed to keystream.read
\* (<<>> when there was no round, or when read was not called).
Call(op, self, from, seq, len, thrown, round, readArg) ==
  [op |-> op, self |-> self, from |-> from, sequenceNumber |-> seq,
   length |-> len, thrown |-> thrown, round |-> round, read |-> readArg]

\* the keystream harness before its first push
KsIdle ==
  /\ ksSecrets = [i \in Peers |-> <<>>]
  /\ ksOut = <<>>
  /\ kst = [obj |-> <<>>, src |-> 0, first |-> <<>>, last |-> <<>>,
            between |-> FALSE, mutated |-> FALSE]

\* every participant has constructed its session; nothing has been called
SessionsIdle ==
  /\ sess = [p \in Peers |-> SparticSession(p)]
  /\ call = Call("constructor", 0, 0, -1, -1, "none", <<>>, <<>>)
  /\ pre = <<>>
  /\ injected = 0
  /\ offered = [p \in Peers |-> <<>>]
  /\ heard = [q \in Peers |-> [from \in Others(q) |-> 0]]
  /\ taken = [p \in Peers |-> <<>>]
  /\ sent = [p \in Peers |-> [q \in Others(p) |-> <<>>]]

\* the participants that run a router; the others are reached through them
Nodes == 1 .. NumNodes

\* A record of the last router handler: the handler, the router it ran on,
\* the group id and the key buffer it was given, the decoded message, the
\* session method it called (session: the group id the session is registered
\* under), the frames it handed to messengers, the exception that ended it,
\* the router as it was before, and whether the message had been sent by
\* another router's sendSessionMessages.
RouterCall(op, node, groupId, pubkey, message, session, method, args, sends,
           thrown, before, wire) ==
  [op |-> op, node |-> node, groupId |-> groupId, pubkey |-> pubkey,
   message |-> message, session |-> session, method |-> method, args |-> args,
   sends |-> sends, thrown |-> thrown, before |-> before, wire |-> wire]

\* new SparticPeer(): no messenger and no session
SparticPeer ==
  [_messengers |-> {}, _sessions |-> <<>>, pendingPeers |-> {},
   connectedPeers |-> {}, pendingPeerWaiters |-> <<>>, joined |-> {}]

\* every router has been constructed; nothing is connected
RouterIdle ==
  rt = [node |-> [n \in Nodes |-> SparticPeer],
        net |-> [n \in Nodes |-> [m \in Nodes \ {n} |-> <<>>]],
        call |-> RouterCall("constructor", 0, <<>>, <<>>, <<>>, <<>>, "none",
                            <<>>, <<>>, "none", <<>>, FALSE),
        made |-> 0, conns |-> 0, inbound |-> 0, promises |-> <<>>]

Init == SessionsIdle /\ KsIdle /\ RouterIdle

\* popMessage as it would be if it took the newest message (pop, not shift)
popMessage_Newest(s, pubkey) ==
  [s EXCEPT !.queues[pubkey] = SubSeq(@, 1, Len(@) - 1)]

\* popMessage(pubkey) on a non-empty queue: the session without the head
popMessage(s, pubkey) == [s EXCEPT !.queues[pubkey] = Tail(@)]

\* what the receiving session does with a message that arrives verbatim
dispatch(s, from, m) ==
  IF m.type = "key" THEN receiveKey(s, from, m.sharedKey)
  ELSE IF m.type = "block" THEN receiveBlock(s, from, m.sequenceNumber, m.block)
  ELSE Return(s)

\* The head of p's queue for q is popped, carried verbatim and handed to q's
\* session (an error text is only logged by the receiver).
Deliver(p, q) ==
  /\ q \in Others(p)
  /\ Len(sess[p].queues[q]) > 0
  /\ LET m == Head(sess[p].queues[q])
         r == dispatch(sess[q], p, m)
     IN  /\ sess' = [sess EXCEPT ![p] = popMessage(sess[p], q), ![q] = r.s]
         /\ call' = Call(IF m.type = "key" THEN "receiveKey"
                         ELSE IF m.type = "block" THEN "receiveBlock"
                         ELSE "text",
                         q, p,
                         IF m.type = "block" THEN m.sequenceNumber ELSE -1,
                         IF m.type = "block" THEN m.block.length ELSE -1,
                         r.thrown, <<>>, <<>>)
         /\ pre' = sess[q]
  /\ UNCHANGED <<injected, offered, ksSecrets, ksOut, heard, taken, extra>>

\* A member peer `from` makes q's session receive a key of its choosing.
InjectKey(q, from, k) ==
  /\ from \in Others(q)
  /\ injected < MaxInject
  /\ LET r == receiveKey(sess[q], from, k)
     IN  /\ sess' = [sess EXCEPT ![q] = r.s]
         /\ call' = Call("receiveKey", q, from, -1, -1, r.thrown, <<>>, <<>>)
         /\ pre' = sess[q]
  /\ injected' = injected + 1
  /\ UNCHANGED <<offered, ksSecrets, ksOut, heard, taken, extra>>

\* A member peer `from` makes q's session receive a block of its choosing.
InjectBlock(q, from, n, b) ==
  /\ from \in Others(q)
  /\ injected < MaxInject
  /\ LET r == receiveBlock(sess[q], from, n, b)
     IN  /\ sess' = [sess EXCEPT ![q] = r.s]
         /\ call' = Call("receiveBlock", q, from, n, b.length, r.thrown, <<>>, <<>>)
         /\ pre' = sess[q]
  /\ injected' = injected + 1
  /\ UNCHANGED <<offered, ksSecrets, ksOut, heard, taken, extra>>

\* The local caller of p calls participateInRound(m).  With `record` the
\* first well-formed message offered after the key exchange is remembered.
Participate(p, m, record) ==
  /\ LET r == participateInRound(sess[p], m)
     IN  /\ sess' = [sess EXCEPT ![p] = r.s]
         /\ call' = Call("participateInRound", p, 0, -1, m.length, r.thrown,
                         IF sess[p].currentRound = <<>> THEN <<>>
                         ELSE <<sess[p].currentRound[1].sequenceNumber>>,
                         readCall(sess[p], m))
         /\ pre' = sess[p]
  /\ offered' = IF /\ record
                   /\ offered[p] = <<>>
                   /\ m.length = BLOCK_SIZE
                   /\ missingKeys(sess[p]) = 0
                THEN [offered EXCEPT ![p] = <<m>>]
                ELSE offered
  /\ UNCHANGED <<injected, ksSecrets, ksOut, heard, taken, extra>>

\* Any member peer may misbehave: sessions receive what their own peers
\* enqueued, and whatever else a member chooses to send.
Next ==
  \/ \E p, q \in Peers : Deliver(p, q)
  \/ \E q, from \in Peers : \E k \in InjectKeys(from, q) : InjectKey(q, from, k)
  \/ \E q, from \in Peers : \E n \in InjectSeqs : \E b \in InjectBlocks :
       InjectBlock(q, from, n, b)
  \/ \E p \in Peers : \E m \in Messages : Participate(p, m, FALSE)

Spec == Init /\ [][Next]_vars

\* The local caller of p calls popResult() and keeps what it returns.
PopResult(p) ==
  /\ LET r == popResult(sess[p])
     IN  /\ sess' = [sess EXCEPT ![p] = r.s]
         /\ taken' = [taken EXCEPT ![p] = @ \o r.value]
  /\ call' = Call("popResult", p, 0, -1, -1, "none", <<>>, <<>>)
  /\ pre' = sess[p]
  /\ UNCHANGED <<injected, offered, ksSecrets, ksOut, heard, extra>>

\* Every participant runs the session code and sends only what its session
\* enqueued; every message is carried verbatim.
NextHonest ==
  \/ \E p, q \in Peers : Deliver(p, q)
  \/ \E p \in Peers : \E m \in Messages : Participate(p, m, TRUE)
  \/ \E p \in Peers : PopResult(p)

SpecHonest == Init /\ [][NextHonest]_vars

\* the block a peer's implementation of the protocol emits in its round n
\* (one block per round, BLOCK_SIZE bytes)
PeerBlockOf(from, n) == Buf(BLOCK_SIZE, (16 * from) + n + 1)

RECURSIVE HeardBy(_, _)
\* the number of blocks that reached q from its first i peers
HeardBy(q, i) ==
  IF i = 0 THEN 0
  ELSE heard[q][otherPubkeysOf(q)[i]] + HeardBy(q, i - 1)

RECURSIVE HeardTotal(_)
HeardTotal(i) == IF i = 0 THEN 0 ELSE HeardBy(i, NumPeers - 1) + HeardTotal(i - 1)

\* The next block of peer `from` reaches q: its round-0 block at any time,
\* a later round's block once q holds every key.
PeerBlock(q, from) ==
  /\ from \in Others(q)
  /\ HeardTotal(NumPeers) < MaxBlocks
  /\ heard[q][from] <= MaxSeq
  /\ heard[q][from] > 0 => missingKeys(sess[q]) = 0
  /\ LET n == heard[q][from]
         r == receiveBlock(sess[q], from, n, PeerBlockOf(from, n))
     IN  /\ sess' = [sess EXCEPT ![q] = r.s]
         /\ call' = Call("receiveBlock", q, from, n, BLOCK_SIZE, r.thrown, <<>>, <<>>)
         /\ pre' = sess[q]
  /\ heard' = [heard EXCEPT ![q][from] = @ + 1]
  /\ UNCHANGED <<injected, offered, ksSecrets, ksOut, taken, extra>>

\* The sessions among peers whose implementations emit their blocks: key
\* messages are carried verbatim, and every peer's block for its next round
\* arrives at some time.
NextPeers ==
  \/ \E p, q \in Peers : Deliver(p, q)
  \/ \E p \in Peers : \E m \in Messages : Participate(p, m, TRUE)
  \/ \E q, from \in Peers : PeerBlock(q, from)

SpecPeers == Init /\ [][NextPeers]_vars

\* The caller of p calls popMessage(q) and keeps what it returns: the head of
\* the queue, or null (and then nothing changes).
PopMessage(p, q) ==
  /\ q \in Others(p)
  /\ IF Len(sess[p].queues[q]) > 0
     THEN /\ sess' = [sess EXCEPT ![p] = popMessage(sess[p], q)]
          /\ sent' = [sent EXCEPT ![p][q] = Append(@, Head(sess[p].queues[q]))]
     ELSE /\ sess' = sess
          /\ sent' = sent
  /\ call' = Call("popMessage", p, q, -1, -1, "none", <<>>, <<>>)
  /\ pre' = sess[p]
  /\ UNCHANGED <<injected, offered, ksSecrets, ksOut, heard, taken, kst, rt>>

\* The session as an inbox and outbox: member peers hand it keys and blocks,
\* its caller participates and pops the messages it queued.
NextQueue ==
  \/ \E q, from \in Peers : \E k \in InjectKeys(from, q) : InjectKey(q, from, k)
  \/ \E q, from \in Peers : \E n \in InjectSeqs : \E b \in InjectBlocks :
       InjectBlock(q, from, n, b)
  \/ \E p \in Peers : \E m \in Messages : Participate(p, m, FALSE)
  \/ \E p, q \in Peers : PopMessage(p, q)

SpecQueue == Init /\ [][NextQueue]_vars

\* ------------------------------------------------------------------------
\* The keystream harness (synchronized_keystream.test.js): secrets are
\* pushed pairwise into the participants' lists, then every participant
\* reads its keystream at the same sequence number and length
\* ------------------------------------------------------------------------
\* secrets the harness draws: two draws may or may not coincide
KsSecrets == 1 .. (MaxPush + 1)

\* sequence numbers read: 0, 1, 2^31 - 1, 2^31 and 2^32
KsSequences ==
  {Num(0, 0), Num(0, 1), Num(Two15 - 1, Two16 - 1), Num(Two15, 0), Num(Two16, 0)}

RECURSIVE SumLen(_, _)
SumLen(lists, i) == IF i = 0 THEN 0 ELSE Len(lists[i]) + SumLen(lists, i - 1)

\* peer_secrets[i].push(secret); peer_secrets[j].push(secret)
KsPush(i, j, secret) ==
  /\ SumLen(ksSecrets, NumPeers) < 2 * MaxPush
  /\ ksSecrets' = [[ksSecrets EXCEPT ![i] = Append(@, secret)]
                     EXCEPT ![j] = Append(@, secret)]
  /\ ksOut' = <<>>
  /\ UNCHANGED <<sess, call, pre, injected, offered, heard, taken, extra>>

\* peer_streams[i] = new SynchronizedKeystream(peer_secrets[i]) and
\* peer_streams[i].read(n, length), for every participant i
KsRead(n, length) ==
  /\ ksOut' = <<[sequence |-> n, length |-> length,
                 out |-> [i \in Peers |->
                            read(SynchronizedKeystream(ksSecrets[i]), <<n>>, length)]]>>
  /\ UNCHANGED <<sess, call, pre, injected, offered, ksSecrets, heard, taken, extra>>

NextKS ==
  \/ \E i, j \in Peers : \E secret \in KsSecrets : KsPush(i, j, secret)
  \/ \E n \in KsSequences : \E length \in 0 .. MaxLen : KsRead(n, length)

SpecKS == Init /\ [][NextKS]_vars

\* ------------------------------------------------------------------------
\* One keystream object over its lifetime.  An array is the record
\* [cell, items]: cell i > 0 is peer_secrets[i], which its owner may still
\* change, cell 0 is an array nobody else holds.
\* ------------------------------------------------------------------------
\* slice as it would be if the keystream kept the caller's array itself
slice_Alias(arr) == arr

\* shared_secrets.slice(0, shared_secrets.length): a new array, same items
slice(arr) == [cell |-> 0, items |-> arr.items]

\* the items an array holds now
Items(arr) == IF arr.cell \in Peers THEN ksSecrets[arr.cell] ELSE arr.items

\* the sequence numbers and the length read from the keystream under test
KsObjSequences == {Num(0, 0), Num(0, 1), Num(Two15, 0)}

\* the caller changes peer_secrets: the harness push, at most MaxGrow times
KsGrow(i, j, secret) ==
  /\ SumLen(ksSecrets, NumPeers) < 2 * MaxGrow
  /\ ksSecrets' = [[ksSecrets EXCEPT ![i] = Append(@, secret)]
                     EXCEPT ![j] = Append(@, secret)]
  /\ kst' = [kst EXCEPT !.mutated = @ \/ (kst.obj # <<>> /\ kst.src \in {i, j})]
  /\ UNCHANGED <<sess, call, pre, injected, offered, ksOut, heard, taken, sent, rt>>

\* stream = new SynchronizedKeystream(peer_secrets[i])
KsNew(i) ==
  /\ kst.obj = <<>>
  /\ kst' = [kst EXCEPT !.obj = <<[keys |-> slice([cell |-> i, items |-> ksSecrets[i]])]>>,
                        !.src = i]
  /\ UNCHANGED <<sess, call, pre, injected, offered, ksSecrets, ksOut, heard, taken, sent, rt>>

\* stream.read(n, length)
KsReadObj(n, length) ==
  /\ kst.obj # <<>>
  /\ LET r == [sequence |-> n, length |-> length,
               out |-> read(Items(kst.obj[1].keys), <<n>>, length)]
     IN  kst' = [kst EXCEPT
                   !.first = IF @ = <<>> THEN <<r>> ELSE @,
                   !.last = <<r>>,
                   !.between = @ \/ (kst.first # <<>>
                                       /\ <<n, length>> # <<kst.first[1].sequence,
                                                             kst.first[1].length>>)]
  /\ UNCHANGED <<sess, call, pre, injected, offered, ksSecrets, ksOut, heard, taken, sent, rt>>

NextStream ==
  \/ \E i, j \in Peers : \E secret \in KsSecrets : KsGrow(i, j, secret)
  \/ \E i \in Peers : KsNew(i)
  \/ \E n \in KsObjSequences : KsReadObj(n, MaxLen)

SpecStream == Init /\ [][NextStream]_vars

\* ------------------------------------------------------------------------
\* SparticPeer: the router between the transport and the sessions
\* ------------------------------------------------------------------------
\* A JavaScript value used as a group id: a number or a string of digits.
\* Map keys compare by SameValueZero, under which 5 and "5" differ.
JsInt(v) == [type |-> "integer", v |-> v]
JsStr(v) == [type |-> "string", v |-> v]

\* a number written where a string is wanted: its decimal digits
numberToString(x) == JsStr(x.v)

\* A public key Buffer: the bytes it holds (the participant they name) and
\* which object it is.  Object 0 is the participant's keyPair.publicKey,
\* object 1 the buffer a transport made from what it read off the network.
\* Map.get, Map.has, Set.has and indexOf find a Buffer by object, not by bytes.
KeyBuf(bytes, object) == [bytes |-> bytes, object |-> object]
KeyObjects == {0, 1}
KeyBufs == {KeyBuf(b, o) : b \in Peers, o \in KeyObjects}

\* the group ids callers register sessions under
GroupIds == {5, 6}

\* the otherPubkeys lists callers of router n pass to createSession: one
\* member (a router's key in either buffer, or another participant's), or
\* every other participant
MemberLists(n) ==
  {<<k>> : k \in {x \in KeyBufs : x.bytes # n /\ (x.bytes \in Nodes \/ x.object = 0)}}
    \cup {[i \in 1 .. (NumPeers - 1) |-> KeyBuf(otherPubkeysOf(n)[i], o)] :
            o \in KeyObjects}

\* ostruct({groupId: 'integer', sharedKey: 'bytes'})
KeyMessageEncoding == [groupId |-> "integer", sharedKey |-> "bytes"]

\* ostruct({groupId: 'string', sequenceNumber: 'integer', block: 'bytes'})
BlockMessageEncoding ==
  [groupId |-> "string", sequenceNumber |-> "integer", block |-> "bytes"]

\* What a codec of the given type writes for a group id: the value when it
\* has that type; for a number given to the string codec either its digits
\* or nothing (an exception), depending on the codec; nothing otherwise.
encodeGroupId(type, value, lenient) ==
  IF value.type = type THEN <<value>>
  ELSE IF type = "string" /\ lenient THEN <<numberToString(value)>>
  ELSE <<>>

\* keyMessage.send(packed): the frame, or <<>> when the codec throws
sendKey(packed, lenient) ==
  LET g == encodeGroupId(KeyMessageEncoding.groupId, packed.groupId, lenient)
  IN  IF g = <<>> THEN <<>>
      ELSE <<[channel |-> "key", groupId |-> g[1], sharedKey |-> packed.sharedKey]>>

\* blockMessage.send(packed): the encoding's fields are read off packed
sendBlock(packed, lenient) ==
  LET g == encodeGroupId(BlockMessageEncoding.groupId, packed.groupId, lenient)
  IN  IF g = <<>> \/ DOMAIN BlockMessageEncoding \ DOMAIN packed # {} THEN <<>>
      ELSE <<[channel |-> "block", groupId |-> g[1],
              sequenceNumber |-> packed.sequenceNumber, block |-> packed.block]>>

\* textMessage.send(text)
sendText(text) == [channel |-> "text", text |-> text]

\* the message object a channel's decoder hands to onmessage: one property
\* per field of the channel's encoding
decode(frame) ==
  IF frame.channel = "key"
  THEN [groupId |-> frame.groupId, sharedKey |-> frame.sharedKey]
  ELSE IF frame.channel = "block"
  THEN [groupId |-> frame.groupId, sequenceNumber |-> frame.sequenceNumber,
        block |-> frame.block]
  ELSE [text |-> frame.text]

\* new SparticSession(otherPubkeys) for a list of key buffers; draw numbers
\* the constructor call, so that every secret it draws is a fresh value
SparticSessionOf(otherPubkeys, draw) ==
  LET keys == {otherPubkeys[i] : i \in DOMAIN otherPubkeys}
      at(k) == CHOOSE i \in DOMAIN otherPubkeys : otherPubkeys[i] = k
  IN  [otherPubkeys |-> otherPubkeys,
       ourSharedKeys |-> [k \in keys |-> randomBytes(draw, at(k))],
       theirSharedKeys |-> [k \in keys |-> <<>>],
       keystream |-> <<>>,
       currentRound |-> <<>>,
       nextRound |-> NewRound(0),
       queues |-> [k \in keys |-> <<KeyMsg(randomBytes(draw, at(k)))>>],
       results |-> <<>>]

\* joinPeer(peerKey)
joinPeer(node, peerKey) ==
  IF peerKey \notin node.connectedPeers
  THEN [node EXCEPT !.pendingPeers = @ \cup {peerKey}, !.joined = @ \cup {peerKey}]
  ELSE [node EXCEPT !.joined = @ \cup {peerKey}]

\* the test of the transport as it would be if it never looked at pendingPeers
noPeersPending_Always(node) == TRUE

\* this.pendingPeers.size == 0
noPeersPending(node) == node.pendingPeers = {}

\* the keys given to joinPeer whose peer has not completed a handshake
Unshaken(node) ==
  {k \in node.joined : \A c \in node.connectedPeers : c.bytes # k.bytes}

\* a promise of flush(); at and left are what pendingPeers and Unshaken were
\* when it resolved
Promise(n, waited, resolved, node) ==
  [node |-> n, waited |-> waited, resolved |-> resolved,
   at |-> IF resolved THEN <<node.pendingPeers>> ELSE <<>>,
   left |-> IF resolved THEN <<Unshaken(node)>> ELSE <<>>]

\* flush(), id being the promise it returns: resolve() at once, or resolve
\* is pushed onto pendingPeerWaiters
flush(node, id) ==
  IF noPeersPending(node)
  THEN [node |-> node, resolved |-> TRUE]
  ELSE [node |-> [node EXCEPT !.pendingPeerWaiters = Append(@, id)],
        resolved |-> FALSE]

\* the end of the 'connect' handler: every waiter is called when no peer is
\* pending; resolve() of a resolved promise does nothing
callWaiters(promises, n, node) ==
  IF noPeersPending(node)
  THEN [i \in DOMAIN promises |->
          IF /\ \E j \in DOMAIN node.pendingPeerWaiters : node.pendingPeerWaiters[j] = i
             /\ ~promises[i].resolved
          THEN Promise(n, promises[i].waited, TRUE, node)
          ELSE promises[i]]
  ELSE promises

RECURSIVE joinPeers(_, _, _)
\* the loop of createSession
joinPeers(node, otherPubkeys, i) ==
  IF i > Len(otherPubkeys) THEN node
  ELSE joinPeers(joinPeer(node, otherPubkeys[i]), otherPubkeys, i + 1)

\* createSession(groupId, otherPubkeys)
createSession(node, groupId, otherPubkeys, draw) ==
  joinPeers([node EXCEPT !._sessions =
               (groupId :> SparticSessionOf(otherPubkeys, draw)) @@ @],
            otherPubkeys, 1)

\* sessionFor(groupId, pubkey): the group id the session found is registered
\* under, or <<>> for null
sessionFor(node, groupId, pubkey) ==
  IF groupId \in DOMAIN node._sessions
  THEN IF \E i \in DOMAIN node._sessions[groupId].otherPubkeys :
            node._sessions[groupId].otherPubkeys[i] = pubkey
       THEN <<groupId>>
       ELSE <<>>
  ELSE <<>>

\* what a handler leaves behind
Handled(node, session, method, args, sends, thrown) ==
  [node |-> node, session |-> session, method |-> method, args |-> args,
   sends |-> sends, thrown |-> thrown]

\* keyMessage onmessage(message) of the connection whose info.publicKey is pubkey
onKeyMessage(node, pubkey, message) ==
  LET session == sessionFor(node, message.groupId, pubkey)
  IN  IF session # <<>>
      THEN LET r == receiveKey(node._sessions[session[1]], pubkey, message.sharedKey)
           IN  Handled([node EXCEPT !._sessions[session[1]] = r.s], session,
                       "receiveKey", <<pubkey, message.sharedKey>>, <<>>, r.thrown)
      ELSE Handled(node, <<>>, "none", <<>>,
                   <<[to |-> pubkey, frame |-> sendText("unexpected key")]>>, "none")

\* blockMessage onmessage(message); its first statement reads
\* message.data.length
onBlockMessage(node, pubkey, message) ==
  IF "data" \notin DOMAIN message
  THEN Handled(node, <<>>, "none", <<>>, <<>>, "TypeError")
  ELSE LET session == sessionFor(node, message.groupId, pubkey)
       IN  IF session # <<>>
           THEN LET r == receiveBlock(node._sessions[session[1]], pubkey,
                                      message.sequenceNumber, message.data)
                IN  Handled([node EXCEPT !._sessions[session[1]] = r.s], session,
                            "receiveBlock",
                            <<pubkey, message.sequenceNumber, message.data>>,
                            <<>>, r.thrown)
           ELSE Handled(node, <<>>, "none", <<>>,
                        <<[to |-> pubkey, frame |-> sendText("unexpected block")]>>,
                        "none")

\* textMessage onmessage(message): the text is logged
onTextMessage(node, pubkey, message) ==
  Handled(node, <<>>, "none", <<>>, <<>>, "none")

\* the channel hands a frame to the handler of its message kind
onmessage(node, pubkey, frame) ==
  IF frame.channel = "key" THEN onKeyMessage(node, pubkey, decode(frame))
  ELSE IF frame.channel = "block" THEN onBlockMessage(node, pubkey, decode(frame))
  ELSE onTextMessage(node, pubkey, decode(frame))

\* the frame sendSessionMessages makes of a popped message, <<>> when the
\* codec throws
packed(groupId, message, lenient) ==
  IF message.type = "key"
  THEN sendKey([groupId |-> groupId, sharedKey |-> message.sharedKey], lenient)
  ELSE IF message.type = "block"
  THEN sendBlock([groupId |-> groupId, sequenceNumber |-> message.sequenceNumber,
                  block |-> message.block], lenient)
  ELSE <<sendText(message.message)>>

RECURSIVE drainQueue(_, _, _, _, _)
\* the inner loop of sendSessionMessages: pop and send until popMessage
\* returns null
drainQueue(s, groupId, pubkey, sends, lenient) ==
  IF Len(s.queues[pubkey]) = 0
  THEN [s |-> s, sends |-> sends, thrown |-> "none"]
  ELSE LET frame == packed(groupId, Head(s.queues[pubkey]), lenient)
           s1 == popMessage(s, pubkey)
       IN  IF frame = <<>>
           THEN [s |-> s1, sends |-> sends, thrown |-> "TypeError"]
           ELSE drainQueue(s1, groupId, pubkey,
                           Append(sends, [to |-> pubkey, frame |-> frame[1]]),
                           lenient)

RECURSIVE drainPeers(_, _, _, _, _, _)
\* the outer loop of sendSessionMessages, over session.otherPubkeys
drainPeers(node, s, groupId, i, sends, lenient) ==
  IF i > Len(s.otherPubkeys)
  THEN [s |-> s, sends |-> sends, thrown |-> "none"]
  ELSE IF s.otherPubkeys[i] \in node._messengers
       THEN LET r == drainQueue(s, groupId, s.otherPubkeys[i], sends, lenient)
            IN  IF r.thrown # "none" THEN r
                ELSE drainPeers(node, r.s, groupId, i + 1, r.sends, lenient)
       ELSE drainPeers(node, s, groupId, i + 1, sends, lenient)

\* sendSessionMessages(groupId)
sendSessionMessages(node, groupId, lenient) ==
  IF groupId \notin DOMAIN node._sessions
  THEN Handled(node, <<>>, "none", <<>>, <<>>, "TypeError")
  ELSE LET r == drainPeers(node, node._sessions[groupId], groupId, 1, <<>>, lenient)
       IN  Handled([node EXCEPT !._sessions[groupId] = r.s], <<groupId>>,
                   "popMessage", <<>>, r.sends, r.thrown)

RECURSIVE framesFor(_, _)
\* of the frames a handler sent, those addressed to participant m, in order
framesFor(sends, m) ==
  IF sends = <<>> THEN <<>>
  ELSE (IF Head(sends).to.bytes = m THEN <<Head(sends).frame>> ELSE <<>>)
       \o framesFor(Tail(sends), m)

\* the transport carries what router n sent: frames for another router
\* queue up on the way to it
Carried(n, sends) ==
  [rt.net EXCEPT ![n] = [m \in Nodes \ {n} |-> rt.net[n][m] \o framesFor(sends, m)]]

RouterFrame == <<sess, call, pre, injected, offered, ksSecrets, ksOut, heard, taken, sent, kst>>

\* the caller of router n makes a session
CreateSession(n, g, otherPubkeys) ==
  /\ rt.made < MaxSessions
  /\ rt' = [rt EXCEPT
              !.node[n] = createSession(rt.node[n], JsInt(g), otherPubkeys, rt.made + 1),
              !.made = @ + 1,
              !.call = RouterCall("createSession", n, <<JsInt(g)>>, <<>>, <<>>,
                                  <<JsInt(g)>>, "constructor", <<otherPubkeys>>,
                                  <<>>, "none", <<rt.node[n]>>, FALSE)]
  /\ UNCHANGED RouterFrame

\* the 'connection' event (conn, info) at router n, info.publicKey being
\* key: another router has connected
Connection(n, key) ==
  /\ rt.conns < MaxConn
  /\ key.bytes \in Nodes \ {n}
  /\ LET node == [rt.node[n] EXCEPT !.connectedPeers = @ \cup {key}]
         dup == key \in node._messengers
         after == IF dup THEN node
                  ELSE [node EXCEPT !._messengers = @ \cup {key},
                                    !.pendingPeers = @ \ {key}]
     IN  rt' = [rt EXCEPT
                  !.node[n] = after,
                  !.conns = @ + 1,
                  !.promises = IF dup THEN @ ELSE callWaiters(@, n, after),
                  !.call = RouterCall("connection", n, <<>>, <<key>>, <<>>, <<>>,
                                      "none", <<>>, <<>>,
                                      IF dup THEN "Error: Duplicate connection!"
                                      ELSE "none",
                                      <<rt.node[n]>>, FALSE)]
  /\ UNCHANGED RouterFrame

\* the 'close' event of the connection whose info.publicKey is key
Close(n, key) ==
  /\ key \in rt.node[n]._messengers
  /\ rt' = [rt EXCEPT
              !.node[n] = [@ EXCEPT !._messengers = @ \ {key},
                                    !.connectedPeers = @ \ {key}],
              !.call = RouterCall("close", n, <<>>, <<key>>, <<>>, <<>>, "none",
                                  <<>>, <<>>, "none", <<rt.node[n]>>, FALSE)]
  /\ UNCHANGED RouterFrame

\* the caller of router n calls sendSessionMessages(g) for a group it made
SendSessionMessages(n, g, lenient) ==
  /\ JsInt(g) \in DOMAIN rt.node[n]._sessions
  /\ LET r == sendSessionMessages(rt.node[n], JsInt(g), lenient)
     IN  rt' = [rt EXCEPT
                  !.node[n] = r.node,
                  !.net = Carried(n, r.sends),
                  !.call = RouterCall("sendSessionMessages", n, <<JsInt(g)>>, <<>>,
                                      <<>>, r.session, r.method, r.args, r.sends,
                                      r.thrown, <<rt.node[n]>>, FALSE)]
  /\ UNCHANGED RouterFrame

\* a frame arrives at router n on the connection whose info.publicKey is key
Handle(n, key, frame, wire) ==
  LET r == onmessage(rt.node[n], key, frame)
  IN  [rt EXCEPT
         !.node[n] = r.node,
         !.call = RouterCall(frame.channel, n,
                             IF frame.channel = "text" THEN <<>>
                             ELSE <<frame.groupId>>,
                             <<key>>, <<decode(frame)>>, r.session, r.method,
                             r.args, r.sends, r.thrown, <<rt.node[n]>>, wire)]

\* the oldest frame another router sent to n arrives
Arrive(n, key) ==
  /\ key \in rt.node[n]._messengers
  /\ key.bytes \in Nodes \ {n}
  /\ Len(rt.net[key.bytes][n]) > 0
  /\ LET frame == Head(rt.net[key.bytes][n])
         h == Handle(n, key, frame, TRUE)
     IN  rt' = [h EXCEPT
                  !.net = [Carried(n, h.call.sends) EXCEPT ![key.bytes][n] = Tail(@)]]
  /\ UNCHANGED RouterFrame

\* the frames another implementation of the protocol sends for group 5: a
\* key message and a block message, fields as the encodings type them
InboundFrames ==
  {[channel |-> "key", groupId |-> JsInt(5), sharedKey |-> ForgedKey],
   [channel |-> "block", groupId |-> JsStr(5), sequenceNumber |-> 0,
    block |-> Buf(BLOCK_SIZE, 66)]}

\* a frame of another implementation arrives at router n
Inbound(n, key, frame) ==
  /\ key \in rt.node[n]._messengers
  /\ rt.inbound < MaxInbound
  /\ LET h == Handle(n, key, frame, FALSE)
     IN  rt' = [h EXCEPT !.net = Carried(n, h.call.sends), !.inbound = @ + 1]
  /\ UNCHANGED RouterFrame

NextRouter ==
  \/ \E n \in Nodes, g \in GroupIds : \E l \in MemberLists(n) : CreateSession(n, g, l)
  \/ \E n \in Nodes, key \in KeyBufs : Connection(n, key)
  \/ \E n \in Nodes, key \in KeyBufs : Close(n, key)
  \/ \E n \in Nodes, g \in GroupIds, lenient \in BOOLEAN : SendSessionMessages(n, g, lenient)
  \/ \E n \in Nodes, key \in KeyBufs : Arrive(n, key)
  \/ \E n \in Nodes, key \in KeyBufs : \E frame \in InboundFrames : Inbound(n, key, frame)

SpecRouter == Init /\ [][NextRouter]_vars

\* ------------------------------------------------------------------------
\* The transport's flush
\* ------------------------------------------------------------------------
\* the caller of router n's transport calls joinPeer(key)
JoinPeer(n, key) ==
  /\ key.bytes # n
  /\ rt' = [rt EXCEPT
              !.node[n] = joinPeer(rt.node[n], key),
              !.call = RouterCall("joinPeer", n, <<>>, <<key>>, <<>>, <<>>, "none",
                                  <<>>, <<>>, "none", <<rt.node[n]>>, FALSE)]
  /\ UNCHANGED RouterFrame

\* the caller of router n's transport calls flush()
Flush(n) ==
  /\ Len(rt.promises) < MaxFlush
  /\ LET r == flush(rt.node[n], Len(rt.promises) + 1)
     IN  rt' = [rt EXCEPT
                  !.node[n] = r.node,
                  !.promises = Append(@, Promise(n, rt.node[n].pendingPeers # {},
                                                 r.resolved, r.node)),
                  !.call = RouterCall("flush", n, <<>>, <<>>, <<>>, <<>>, "none",
                                      <<>>, <<>>, "none", <<rt.node[n]>>, FALSE)]
  /\ UNCHANGED RouterFrame

\* keys are joined, peers connect and flush() is called; no connection
\* closes, so connectedPeers holds every key that completed a handshake
NextFlush ==
  \/ \E n \in Nodes, key \in KeyBufs : JoinPeer(n, key)
  \/ \E n \in Nodes, key \in KeyBufs : Connection(n, key)
  \/ \E n \in Nodes : Flush(n)

SpecFlush == Init /\ [][NextFlush]_vars

\* ------------------------------------------------------------------------
\* The demo driver
\* ------------------------------------------------------------------------
\* the block the tick offers: Buffer.alloc(BLOCK_SIZE)
TickBlock == Buf(BLOCK_SIZE, 0)

\* The body of the tick for participant p, after its sendSessionMessages:
\* participateInRound with a zero block when readyToParticipate(), then
\* popResult.  An exception of participateInRound ends the tick.
Tick(p) ==
  /\ LET ready == readyToParticipate(sess[p])
         r == IF ready THEN participateInRound(sess[p], TickBlock) ELSE Return(sess[p])
         popped == IF r.thrown = "none" THEN popResult(r.s) ELSE [s |-> r.s, value |-> <<>>]
     IN  /\ sess' = [sess EXCEPT ![p] = popped.s]
         /\ taken' = [taken EXCEPT ![p] = @ \o popped.value]
         /\ offered' = IF ready /\ offered[p] = <<>>
                       THEN [offered EXCEPT ![p] = <<TickBlock>>]
                       ELSE offered
         /\ call' = Call("tick", p, 0, -1, IF ready THEN TickBlock.length ELSE -1,
                         r.thrown,
                         IF sess[p].currentRound = <<>> THEN <<>>
                         ELSE <<sess[p].currentRound[1].sequenceNumber>>,
                         IF ready THEN readCall(sess[p], TickBlock) ELSE <<>>)
         /\ pre' = sess[p]
  /\ UNCHANGED <<injected, ksSecrets, ksOut, heard, extra>>

\* Every peer's tick ships what its session queued, and the transport
\* delivers it: Deliver is that for one message.
NextDemo ==
  \/ \E p, q \in Peers : Deliver(p, q)
  \/ \E p \in Peers : Tick(p)

\* every shipped message is eventually delivered and every peer keeps ticking
DemoFairness ==
  /\ \A p, q \in Peers : WF_vars(Deliver(p, q))
  /\ \A p \in Peers : WF_vars(Tick(p))

SpecDemo == Init /\ [][NextDemo]_vars /\ DemoFairness

\* ------------------------------------------------------------------------
\* Shorthands of the properties
\* ------------------------------------------------------------------------
\* p holds a key from every peer (its key exchange is complete)
KeyExchangeDone(p) == missingKeys(sess[p]) = 0

\* every queued message has been delivered
NothingInFlight == \A p \in Peers : \A q \in Others(p) : sess[p].queues[q] = <<>>

\* the messages offered by participants 1 .. NumPeers, in that order
OfferedList == [p \in 1 .. NumPeers |-> offered[p][1]]

\* sequence number n is neither the current nor the next round of s
OutOfWindow(s, n) ==
  /\ ~(s.currentRound # <<>> /\ n = s.currentRound[1].sequenceNumber)
  /\ n # s.nextRound.sequenceNumber

LastOf(q) == q[Len(q)]

\* ------------------------------------------------------------------------
\* C1  Round recovery.  In a group whose sessions have all completed the key
\* exchange, once every participant has called participateInRound(m_p) in
\* round 0 and every enqueued message has been delivered, the first result
\* of every participant is m_1 XOR ... XOR m_N.
\* ------------------------------------------------------------------------
C1_RoundRecovery ==
  ((\A p \in Peers : KeyExchangeDone(p) /\ offered[p] # <<>>) /\ NothingInFlight)
    => \A p \in Peers :
         /\ Len(sess[p].results) >= 1
         /\ <<sess[p].results[1]>> = xor_all(OfferedList)

\* ------------------------------------------------------------------------
\* C2  Keystream XOR-to-zero.  Whatever secrets were pushed pairwise, and for
\* every sequence number and length, every participant's read returns a
\* block and the XOR of the N blocks is all zero.
\* ------------------------------------------------------------------------
\* the blocks the participants read, in participant order
KsBlocks == [i \in 1 .. NumPeers |-> ksOut[1].out[i].value[1]]

C2_XorToZero ==
  ksOut # <<>>
    => /\ \A i \in Peers : ksOut[1].out[i].thrown = "none"
       /\ xor_all(KsBlocks) = <<Buf(ksOut[1].length, 0)>>

\* the part of C2 that the code satisfies: whenever the reads return, their
\* XOR is all zero
C2_ZeroWhenReturned ==
  (ksOut # <<>> /\ \A i \in Peers : ksOut[1].out[i].thrown = "none")
    => xor_all(KsBlocks) = <<Buf(ksOut[1].length, 0)>>

\* ------------------------------------------------------------------------
\* C3  Pairwise secret agreement.  With every key message delivered
\* verbatim, two participants that have both finished the key exchange hold
\* the same two secrets for each other, each has built its keystream, and
\* once all have finished the keystreams XOR to zero at every sequence number.
\* ------------------------------------------------------------------------
PairSecrets(p, q) == {sess[p].ourSharedKeys[q], sess[p].theirSharedKeys[q][1]}

RECURSIVE XorReads(_, _)
\* the XOR of read(n, BLOCK_SIZE) over the keystreams of participants 1 .. i
XorReads(i, n) ==
  IF i = 0 THEN Buf(BLOCK_SIZE, 0)
  ELSE buffer_xor(XorReads(i - 1, n),
                  read(sess[i].keystream[1], <<NumOf(n)>>, BLOCK_SIZE).value[1])

C3_PairAgreement ==
  \A p \in Peers : \A q \in Others(p) :
    (KeyExchangeDone(p) /\ KeyExchangeDone(q)) => PairSecrets(p, q) = PairSecrets(q, p)

C3_SecretAgreement ==
  /\ C3_PairAgreement
  /\ \A p \in Peers : KeyExchangeDone(p) => sess[p].keystream # <<>>
  /\ (\A p \in Peers : KeyExchangeDone(p))
       => \A n \in 0 .. MaxSeq : XorReads(NumPeers, n) = Buf(BLOCK_SIZE, 0)

\* ------------------------------------------------------------------------
\* C4  A participateInRound call with a BLOCK_SIZE message, on a session
\* that has completed the key exchange and has not yet sent its block for
\* the round, is in a round r and reads the keystream at sequence number r.
\* ------------------------------------------------------------------------
C4_ReadsCurrentRound ==
  ( /\ call.op = "participateInRound"
    /\ call.length = BLOCK_SIZE
    /\ KeyExchangeDone(call.self)
    /\ call.thrown # "Error: Message already sent this round; cannot send message" )
    => /\ call.round # <<>>
       /\ call.read = << <<NumOf(call.round[1])>> >>

\* ------------------------------------------------------------------------
\* C5  Pipeline bound.  A receiveBlock whose sequence number is neither the
\* current nor the next round's returns normally, appends exactly one
\* Error('block is for an unacceptable round') to the sender's queue and
\* leaves every other part of the session as it was.
\* ------------------------------------------------------------------------
UnacceptableRound == ErrorMsg("block is for an unacceptable round")

C5_OutOfWindowRejected ==
  (call.op = "receiveBlock" /\ OutOfWindow(pre, call.sequenceNumber))
    => /\ sess[call.self] = Enqueue(pre, call.from, UnacceptableRound)
       /\ call.thrown = "none"

\* an out-of-window block has just been answered
C5_Witness ==
  /\ call.op = "receiveBlock"
  /\ call.thrown = "none"
  /\ OutOfWindow(pre, call.sequenceNumber)
  /\ sess[call.self].queues[call.from] = Append(pre.queues[call.from], UnacceptableRound)

\* ------------------------------------------------------------------------
\* C6  Duplicate key.  A receiveKey from a peer whose key is already stored
\* returns normally, appends exactly one Error('public key already
\* received') to that peer's queue and leaves every other part of the
\* session (theirSharedKeys, keystream, rounds, results, other queues) as it
\* was, before and after the last key has arrived.
\* ------------------------------------------------------------------------
AlreadyReceived == ErrorMsg("public key already received")

C6_DuplicateKey ==
  (call.op = "receiveKey" /\ pre.theirSharedKeys[call.from] # <<>>)
    => /\ sess[call.self] = Enqueue(pre, call.from, AlreadyReceived)
       /\ call.thrown = "none"

\* a duplicate key has just been answered by a session that already holds
\* every peer's key
C6_Witness ==
  /\ call.op = "receiveKey"
  /\ call.thrown = "none"
  /\ KeyExchangeDone(call.self)
  /\ pre.theirSharedKeys[call.from] # <<>>
  /\ sess[call.self].queues[call.from] = Append(pre.queues[call.from], AlreadyReceived)

\* ------------------------------------------------------------------------
\* C7  Duplicate block.  When a peer's BLOCK_SIZE block for an acceptable
\* round has just been received, a further BLOCK_SIZE block from that peer
\* for the same round leaves both rounds as they are and appends exactly one
\* Error('block is already here') to that peer's queue.
\* ------------------------------------------------------------------------
AlreadyHere == ErrorMsg("block is already here")

C7_DuplicateBlock ==
  [][ \A q \in Peers : \A from \in Others(q) :
        \A n \in InjectSeqs : \A b \in InjectBlocks :
          ( /\ InjectBlock(q, from, n, b)
            /\ call.op = "receiveBlock" /\ call.self = q /\ call.from = from
            /\ call.sequenceNumber = n /\ call.length = BLOCK_SIZE
            /\ b.length = BLOCK_SIZE
            /\ ~OutOfWindow(sess[q], n) )
            => /\ sess'[q].currentRound = sess[q].currentRound
               /\ sess'[q].nextRound = sess[q].nextRound
               /\ sess'[q].queues[from] = Append(sess[q].queues[from], AlreadyHere) ]_vars

\* ------------------------------------------------------------------------
\* C8  Wrong-size block.  After a receiveBlock for an acceptable round whose
\* block is not BLOCK_SIZE long, the sender's queue ends with
\* Error('block is the wrong size') and no round holds a block of that size.
\* ------------------------------------------------------------------------
WrongSize == ErrorMsg("block is the wrong size")

RoundBlocks(r) == {r.theirBlocks[k] : k \in DOMAIN r.theirBlocks}

StoredBlocks(s) ==
  RoundBlocks(s.nextRound)
    \cup (IF s.currentRound = <<>> THEN {} ELSE RoundBlocks(s.currentRound[1]))

C8_WrongSizeBlock ==
  ( /\ call.op = "receiveBlock"
    /\ call.length # BLOCK_SIZE
    /\ ~OutOfWindow(pre, call.sequenceNumber) )
    => /\ Len(sess[call.self].queues[call.from]) > 0
       /\ LastOf(sess[call.self].queues[call.from]) = WrongSize
       /\ \A b \in StoredBlocks(sess[call.self]) : b.length = BLOCK_SIZE

\* ------------------------------------------------------------------------
\* C9  Peer-protocol calls never throw: every receiveKey and receiveBlock
\* returns normally.
\* ------------------------------------------------------------------------
C9_NeverThrows ==
  call.op \in {"receiveKey", "receiveBlock"} => call.thrown = "none"

\* ------------------------------------------------------------------------
\* C10  Local-caller errors.  participateInRound with a message that is not
\* BLOCK_SIZE long, or with no current round, or with the round's ourBlock
\* already set, throws to the caller and changes no session: no field, no
\* queue, no result.
\* ------------------------------------------------------------------------
C10_LocalCallerErrors ==
  ( /\ call.op = "participateInRound"
    /\ \/ call.length # BLOCK_SIZE
       \/ pre.currentRound = <<>>
       \/ pre.currentRound[1].ourBlock # <<>> )
    => /\ call.thrown # "none"
       /\ sess[call.self] = pre

\* participateInRound has just failed for want of a round although the
\* message was well-formed and every key had arrived
C10_Witness ==
  /\ call.op = "participateInRound"
  /\ call.length = BLOCK_SIZE
  /\ KeyExchangeDone(call.self)
  /\ call.thrown = "Error: No round is in progress; cannot send message"

\* ------------------------------------------------------------------------
\* Shorthands of the round properties
\* ------------------------------------------------------------------------
\* round r of session s holds the local block and a block of every peer
RoundComplete(s, r) ==
  /\ r.ourBlock # <<>>
  /\ \A i \in DOMAIN s.otherPubkeys : s.otherPubkeys[i] \in DOMAIN r.theirBlocks

\* the round of s that sequence number n names (n is in the window of s)
WindowRound(s, n) ==
  IF s.currentRound # <<>> /\ n = s.currentRound[1].sequenceNumber
  THEN s.currentRound[1] ELSE s.nextRound

\* a block of `len` bytes from peer `from` for sequence number n is one that
\* s accepts: in the window, of the right size, the first from that peer
Acceptable(s, from, n, len) ==
  /\ ~OutOfWindow(s, n)
  /\ len = BLOCK_SIZE
  /\ from \notin DOMAIN WindowRound(s, n).theirBlocks

\* the last call was a receiveBlock of a block its session accepts
AcceptableBlockCall ==
  /\ call.op = "receiveBlock"
  /\ Acceptable(pre, call.from, call.sequenceNumber, call.length)

\* ------------------------------------------------------------------------
\* C11  Round completion rule.  A call advances the current round only when
\* that round holds the local block and a block of every peer, appending
\* one result; and the completion check runs after every accepted inbound
\* block: the receiveBlock of an acceptable block returns normally, and no
\* session is left with a complete current round.
\* ------------------------------------------------------------------------
C11_RoundCompletion ==
  /\ \A p \in Peers :
       sess[p].currentRound # <<>> => ~RoundComplete(sess[p], sess[p].currentRound[1])
  /\ (call.op \in {"receiveBlock", "participateInRound"}
        /\ Len(sess[call.self].results) # Len(pre.results))
       => /\ pre.currentRound # <<>>
          /\ pre.currentRound[1].ourBlock # <<>> \/ call.op = "participateInRound"
          /\ \A i \in DOMAIN pre.otherPubkeys :
               \/ pre.otherPubkeys[i] \in DOMAIN pre.currentRound[1].theirBlocks
               \/ call.op = "receiveBlock" /\ pre.otherPubkeys[i] = call.from
          /\ Len(sess[call.self].results) = Len(pre.results) + 1
          /\ sess[call.self].currentRound[1].sequenceNumber
               = pre.currentRound[1].sequenceNumber + 1
  /\ AcceptableBlockCall => call.thrown = "none"

\* ------------------------------------------------------------------------
\* C12  participateInRound checks completion.  When the round-0 block of
\* every peer has already reached a session that holds every key and has
\* completed no round yet, a participateInRound call with a BLOCK_SIZE
\* message (the round's first) returns normally and itself completes the
\* round: the one result is the XOR of the local block and the peers'
\* blocks, and the current round is round 1.
\* ------------------------------------------------------------------------
\* the round-n blocks of the peers of p, in otherPubkeys order
PeerBlocksOf(p, n) ==
  [i \in 1 .. (NumPeers - 1) |-> PeerBlockOf(otherPubkeysOf(p)[i], n)]

\* the block message p's session enqueued last for its first peer
LastSent(p) == LastOf(sess[p].queues[otherPubkeysOf(p)[1]])

C12_ParticipateCompletes ==
  ( /\ call.op = "participateInRound"
    /\ call.length = BLOCK_SIZE
    /\ missingKeys(pre) = 0
    /\ pre.results = <<>>
    /\ \A from \in Others(call.self) : heard[call.self][from] >= 1
    /\ call.thrown # "Error: Message already sent this round; cannot send message" )
    => /\ call.thrown = "none"
       /\ Len(sess[call.self].results) = 1
       /\ LastSent(call.self).type = "block"
       /\ <<sess[call.self].results[1]>>
            = xor_all(<<LastSent(call.self).block>> \o PeerBlocksOf(call.self, 0))
       /\ sess[call.self].currentRound # <<>>
       /\ sess[call.self].currentRound[1].sequenceNumber = 1

\* ------------------------------------------------------------------------
\* C13  Setup-phase buffering.  While some key is missing (there is no
\* current round), a BLOCK_SIZE block with sequence number 0, the first
\* from its peer, is stored in nextRound by receiveBlock; and the receiveKey
\* that brings the last missing key makes that round object, with every
\* buffered block, the current round.
\* ------------------------------------------------------------------------
\* the last call was a receiveKey that brought the last missing key
LastKeyCall ==
  /\ call.op = "receiveKey"
  /\ pre.theirSharedKeys[call.from] = <<>>
  /\ missingKeys(pre) = 1

C13_SetupBuffering ==
  /\ ( /\ AcceptableBlockCall
       /\ call.sequenceNumber = 0
       /\ missingKeys(pre) > 0 )
       => /\ call.thrown = "none"
          /\ sess[call.self].currentRound = <<>>
          /\ call.from \in DOMAIN sess[call.self].nextRound.theirBlocks
          /\ sess[call.self].nextRound.theirBlocks[call.from].length = BLOCK_SIZE
          /\ \A k \in DOMAIN pre.nextRound.theirBlocks :
               sess[call.self].nextRound.theirBlocks[k] = pre.nextRound.theirBlocks[k]
  /\ LastKeyCall => sess[call.self].currentRound = <<pre.nextRound>>

\* ------------------------------------------------------------------------
\* C14  Pipelined arrival.  A session holds every key and its caller has
\* offered the round-0 message; the round-0 and round-1 blocks of one peer
\* have reached it, and now the last missing round-0 block arrives.  That
\* receiveBlock completes round 0 with the XOR of the N round-0 blocks, and
\* the early round-1 block is in currentRound.theirBlocks of round 1.
\* ------------------------------------------------------------------------
\* the peers whose round-1 block reached p
EarlyPeers(p) == {from \in Others(p) : heard[p][from] = 2}

\* the last call brought p = call.self the last missing round-0 block, after
\* some peer's round-1 block
PipelinedCall ==
  /\ call.op = "receiveBlock"
  /\ call.sequenceNumber = 0
  /\ missingKeys(pre) = 0
  /\ pre.results = <<>>
  /\ offered[call.self] # <<>>
  /\ heard[call.self][call.from] = 1
  /\ \A from \in Others(call.self) : heard[call.self][from] >= 1
  /\ EarlyPeers(call.self) # {}

C14_PipelinedArrival ==
  PipelinedCall
    => /\ call.thrown = "none"
       /\ Len(sess[call.self].results) = 1
       /\ LastSent(call.self).type = "block"
       /\ <<sess[call.self].results[1]>>
            = xor_all(<<LastSent(call.self).block>> \o PeerBlocksOf(call.self, 0))
       /\ sess[call.self].currentRound # <<>>
       /\ sess[call.self].currentRound[1].sequenceNumber = 1
       /\ \A from \in Others(call.self) :
            IF from \in EarlyPeers(call.self)
            THEN /\ from \in DOMAIN sess[call.self].currentRound[1].theirBlocks
                 /\ sess[call.self].currentRound[1].theirBlocks[from] = PeerBlockOf(from, 1)
            ELSE from \notin DOMAIN sess[call.self].currentRound[1].theirBlocks

\* ------------------------------------------------------------------------
\* C15  Lifecycle.  While some key is missing a session has no current
\* round and no keystream, and readyToParticipate() is false; the receiveKey
\* that brings the last missing key returns having built the keystream and
\* made the round with sequence number 0 the current round; a session that
\* holds every key has a current round ever after.
\* ------------------------------------------------------------------------
C15_Lifecycle ==
  /\ \A p \in Peers :
       missingKeys(sess[p]) > 0
         => /\ sess[p].currentRound = <<>>
            /\ sess[p].keystream = <<>>
            /\ ~readyToParticipate(sess[p])
  /\ LastKeyCall
       => /\ call.thrown = "none"
          /\ sess[call.self].keystream = <<SynchronizedKeystream(secretsList(sess[call.self], 1))>>
          /\ sess[call.self].currentRound # <<>>
          /\ sess[call.self].currentRound[1].sequenceNumber = 0
  /\ \A p \in Peers : missingKeys(sess[p]) = 0 => sess[p].currentRound # <<>>

\* the part of C15 that the code satisfies: nothing runs before the last key
C15_SetupHasNoRound ==
  \A p \in Peers :
    missingKeys(sess[p]) > 0
      => /\ sess[p].currentRound = <<>>
         /\ sess[p].keystream = <<>>
         /\ ~readyToParticipate(sess[p])

\* ------------------------------------------------------------------------
\* C16  Construction.  Right after the sessions are created, every session
\* has for every peer q of its peer set exactly one queued message,
\* Key(ourSharedKeys[q]); theirSharedKeys[q] is null for every q;
\* currentRound is null; nextRound has sequence number 0, no peer block and
\* no local block; results is empty.
\* ------------------------------------------------------------------------
C16_Construction ==
  call.op = "constructor"
    => \A p \in Peers :
         /\ DOMAIN sess[p].queues = Others(p)
         /\ DOMAIN sess[p].theirSharedKeys = Others(p)
         /\ \A q \in Others(p) :
              /\ sess[p].queues[q] = <<KeyMsg(sess[p].ourSharedKeys[q])>>
              /\ sess[p].theirSharedKeys[q] = <<>>
         /\ sess[p].currentRound = <<>>
         /\ sess[p].nextRound.sequenceNumber = 0
         /\ DOMAIN sess[p].nextRound.theirBlocks = {}
         /\ sess[p].nextRound.ourBlock = <<>>
         /\ sess[p].results = <<>>

\* the sessions have just been constructed, their key messages queued
C16_Witness ==
  /\ call.op = "constructor"
  /\ \A p \in Peers : \A q \in Others(p) :
       /\ Len(sess[p].queues[q]) = 1
       /\ sess[p].queues[q][1].type = "key"

\* ------------------------------------------------------------------------
\* C17  The round's block.  A participateInRound call with a BLOCK_SIZE
\* message, on a session that holds every key and has not yet sent its block
\* for the round, succeeds in the current round r: ourBlock becomes the
\* keystream of round r XOR the message, and every peer's queue gains
\* exactly one message, Block(r, ourBlock).  No other call enqueues a block
\* message, so no peer is sent two blocks with one sequence number.
\* ------------------------------------------------------------------------
\* the blocks participateInRound may compute in round r of session s
RoundBlocksFor(s, r) ==
  {buffer_xor(read(s.keystream[1], <<NumOf(r)>>, BLOCK_SIZE).value[1], m) :
     m \in {x \in Messages : x.length = BLOCK_SIZE}}

\* the last call appended a block message to some queue of its session
BlockEnqueued ==
  /\ call.self \in Peers
  /\ \E q \in Others(call.self) :
       /\ Len(sess[call.self].queues[q]) > Len(pre.queues[q])
       /\ LastOf(sess[call.self].queues[q]).type = "block"

C17_OneBlockPerRound ==
  /\ ( /\ call.op = "participateInRound"
       /\ call.length = BLOCK_SIZE
       /\ missingKeys(pre) = 0
       /\ call.thrown # "Error: Message already sent this round; cannot send message" )
       => /\ call.thrown = "none"
          /\ pre.currentRound # <<>>
          /\ sess[call.self].currentRound # <<>>
          /\ sess[call.self].currentRound[1].ourBlock # <<>>
          /\ sess[call.self].currentRound[1].ourBlock[1]
               \in RoundBlocksFor(pre, pre.currentRound[1].sequenceNumber)
          /\ \A q \in Others(call.self) :
               sess[call.self].queues[q]
                 = Append(pre.queues[q],
                          BlockMsg(pre.currentRound[1].sequenceNumber,
                                   sess[call.self].currentRound[1].ourBlock[1]))
  /\ BlockEnqueued
       => /\ call.op = "participateInRound"
          /\ call.thrown = "none"
          /\ pre.currentRound # <<>>
          /\ pre.currentRound[1].ourBlock = <<>>

\* ------------------------------------------------------------------------
\* C18  readyToParticipate() is true exactly when there is a current round
\* whose ourBlock is not set, and a participateInRound call with a
\* BLOCK_SIZE message returns normally exactly when readyToParticipate()
\* was true on the session it was called on.
\* ------------------------------------------------------------------------
C18_ReadyIffParticipates ==
  /\ \A p \in Peers :
       readyToParticipate(sess[p])
         <=> (sess[p].currentRound # <<>> /\ sess[p].currentRound[1].ourBlock = <<>>)
  /\ (call.op = "participateInRound" /\ call.length = BLOCK_SIZE)
       => (call.thrown = "none" <=> readyToParticipate(pre))

\* a BLOCK_SIZE message was refused by a session that holds every key and
\* reported that it was not ready
C18_Witness ==
  /\ call.op = "participateInRound"
  /\ call.length = BLOCK_SIZE
  /\ missingKeys(pre) = 0
  /\ ~readyToParticipate(pre)
  /\ call.thrown # "none"
  /\ sess[call.self] = pre

\* ------------------------------------------------------------------------
\* C19  Results in sequence order.  The results a session has appended so
\* far (those popped, then those still queued) number 0 while a key is
\* missing, and currentRound.sequenceNumber once every key is held; a call
\* other than popResult only ever appends to them, one at a time; and
\* popResult returns the oldest queued result, or null and no change when
\* none is queued.
\* ------------------------------------------------------------------------
\* every result p's session has appended, in order
Appended(p) == taken[p] \o sess[p].results

IsPrefix(a, b) == Len(a) <= Len(b) /\ SubSeq(b, 1, Len(a)) = a

C19_ResultsInOrder ==
  /\ \A p \in Peers :
       IF missingKeys(sess[p]) > 0
       THEN Len(Appended(p)) = 0
       ELSE /\ sess[p].currentRound # <<>>
            /\ Len(Appended(p)) = sess[p].currentRound[1].sequenceNumber
  /\ (call.self \in Peers /\ call.op # "popResult")
       => /\ IsPrefix(pre.results, sess[call.self].results)
          /\ Len(sess[call.self].results) <= Len(pre.results) + 1
  /\ call.op = "popResult"
       => IF pre.results = <<>>
          THEN sess[call.self] = pre
          ELSE /\ sess[call.self].results = Tail(pre.results)
               /\ LastOf(taken[call.self]) = Head(pre.results)

\* ------------------------------------------------------------------------
\* C20  Sequence numbers.  The current round is round 0 when the last key
\* has arrived; from then on (RUNNING) the session has a current round and
\* nextRound.sequenceNumber = currentRound.sequenceNumber + 1; a call leaves
\* the current sequence number as it was or one higher, and when it advances
\* the new nextRound has no peer block and no local block.
\* ------------------------------------------------------------------------
C20_SequenceNumbers ==
  /\ LastKeyCall
       => /\ sess[call.self].currentRound # <<>>
          /\ sess[call.self].currentRound[1].sequenceNumber = 0
  /\ \A p \in Peers :
       missingKeys(sess[p]) = 0
         => /\ sess[p].currentRound # <<>>
            /\ sess[p].nextRound.sequenceNumber
                 = sess[p].currentRound[1].sequenceNumber + 1
  /\ (call.self \in Peers /\ pre.currentRound # <<>>)
       => /\ sess[call.self].currentRound # <<>>
          /\ sess[call.self].currentRound[1].sequenceNumber
               \in {pre.currentRound[1].sequenceNumber,
                    pre.currentRound[1].sequenceNumber + 1}
  /\ (call.self \in Peers
        /\ sess[call.self].nextRound.sequenceNumber # pre.nextRound.sequenceNumber)
       => /\ sess[call.self].currentRound # <<>>
          /\ sess[call.self].currentRound[1].sequenceNumber = pre.nextRound.sequenceNumber
          /\ sess[call.self].nextRound.sequenceNumber = pre.nextRound.sequenceNumber + 1
          /\ DOMAIN sess[call.self].nextRound.theirBlocks = {}
          /\ sess[call.self].nextRound.ourBlock = <<>>

\* ------------------------------------------------------------------------
\* C21  Per-peer FIFO.  For every session and peer, the messages popMessage
\* has returned followed by those still queued are the messages enqueued for
\* that peer in enqueue order: a call other than popMessage only appends to
\* the queue, a popMessage on a non-empty queue returns its head and removes
\* exactly that, and on an empty queue changes nothing.  The Key message
\* comes first and Block messages carry increasing sequence numbers.
\* ------------------------------------------------------------------------
\* every message p's session has enqueued for q, in order
Enqueued(p, q) == sent[p][q] \o sess[p].queues[q]

KeyFirstBlocksIncreasing(msgs) ==
  /\ Len(msgs) >= 1
  /\ \A i \in DOMAIN msgs : msgs[i].type = "key" <=> i = 1
  /\ \A i, j \in DOMAIN msgs :
       (i < j /\ msgs[i].type = "block" /\ msgs[j].type = "block")
         => msgs[i].sequenceNumber < msgs[j].sequenceNumber

C21_PerPeerFifo ==
  /\ \A p \in Peers : \A q \in Others(p) : KeyFirstBlocksIncreasing(Enqueued(p, q))
  /\ call.op = "popMessage"
       => IF pre.queues[call.from] = <<>>
          THEN sess[call.self] = pre
          ELSE /\ sess[call.self]
                    = [pre EXCEPT !.queues[call.from] = Tail(pre.queues[call.from])]
               /\ Len(sent[call.self][call.from]) > 0
               /\ LastOf(sent[call.self][call.from]) = Head(pre.queues[call.from])
  /\ (call.self \in Peers /\ call.op # "popMessage")
       => \A q \in Others(call.self) :
            IsPrefix(pre.queues[q], sess[call.self].queues[q])

\* popMessage has returned the Key message and then an error message, and has
\* now found the queue empty
C21_Witness ==
  /\ call.op = "popMessage"
  /\ pre.queues[call.from] = <<>>
  /\ Len(sent[call.self][call.from]) >= 2
  /\ sent[call.self][call.from][1].type = "key"
  /\ sent[call.self][call.from][2].type = "error"

\* ------------------------------------------------------------------------
\* C22  Arrival-order independence.  Once a session holds every key, its
\* caller has offered the round-0 message and the round-0 block of every
\* peer has reached it, in whichever order and however interleaved with the
\* participateInRound call, its round-0 result is the XOR of the local block
\* (keystream of round 0 XOR the message) and the peers' blocks in
\* otherPubkeys order: a function of the blocks alone.
\* ------------------------------------------------------------------------
\* the block p's session is to emit in round 0 for the message its caller
\* offered
OurBlockOf(p) ==
  buffer_xor(read(SynchronizedKeystream(secretsList(sess[p], 1)),
                  <<NumOf(0)>>, BLOCK_SIZE).value[1],
             offered[p][1])

\* every input of p's round 0 has arrived
RoundZeroFed(p) ==
  /\ missingKeys(sess[p]) = 0
  /\ offered[p] # <<>>
  /\ \A from \in Others(p) : heard[p][from] >= 1

C22_ArrivalOrder ==
  \A p \in Peers :
    RoundZeroFed(p)
      => /\ Len(sess[p].results) >= 1
         /\ <<sess[p].results[1]>> = xor_all(<<OurBlockOf(p)>> \o PeerBlocksOf(p, 0))

RECURSIVE Reverse(_)
Reverse(q) == IF Len(q) = 0 THEN <<>> ELSE Append(Reverse(Tail(q)), Head(q))

\* the part of C22 that the code satisfies: xor_all gives the same block for
\* the peers' blocks in either order
C22_XorAllOrderFree ==
  \A p \in Peers : \A n \in 0 .. MaxSeq :
    xor_all(PeerBlocksOf(p, n)) = xor_all(Reverse(PeerBlocksOf(p, n)))

\* ------------------------------------------------------------------------
\* Shorthands of the keystream properties
\* ------------------------------------------------------------------------
\* the last harness read returned a block to every participant
KsReturned == ksOut # <<>> /\ \A i \in Peers : ksOut[1].out[i].thrown = "none"

\* both nonce words of sequence number n can be written
Writable(n) ==
  writeUInt32BE_ok(ShiftRight(<<n>>, 32)) /\ writeUInt32BE_ok(AndAllOnes(<<n>>))

\* ------------------------------------------------------------------------
\* C27  read cannot fail: every read of the harness, at whatever sequence
\* number (2^31 and 2^32 among them), returns a block without an exception.
\* ------------------------------------------------------------------------
C27_ReadNeverFails ==
  ksOut # <<>> => \A i \in Peers : ksOut[1].out[i].thrown = "none"

\* ------------------------------------------------------------------------
\* C28  Nonce encoding.  The nonce of a read is 24 bytes (six 32-bit words):
\* the last two words are the high and the low half of the 64-bit sequence
\* number and the first four are zero; and two distinct sequence numbers
\* never get the same nonce.
\* ------------------------------------------------------------------------
\* the six words of the nonce that is the big-endian sequence number in
\* the last 8 of 24 bytes, each word as a JavaScript number
ExpectedNonce(n) ==
  [i \in 1 .. (NONCEBYTES \div 4) |->
     IF i = (NONCEBYTES \div 4) - 1 THEN Num(0, n.hi \div Two16)
     ELSE IF i = NONCEBYTES \div 4 THEN Num(n.hi % Two16, n.lo)
     ELSE Num(0, 0)]

NonceWords(n) == [i \in 1 .. (NONCEBYTES \div 4) |-> NumOf(nonceFor(<<n>>)[i])]

C28_NonceEncoding ==
  KsReturned
    => /\ NonceWords(ksOut[1].sequence) = ExpectedNonce(ksOut[1].sequence)
       /\ \A n \in KsSequences :
            (n # ksOut[1].sequence /\ Writable(n))
              => nonceFor(<<n>>) # nonceFor(<<ksOut[1].sequence>>)

\* ------------------------------------------------------------------------
\* C29  Keystream list algebra.  What a participant read from its list of
\* secrets is what it would read from the list reversed, from the list with
\* any secret added twice, and from the list of the secrets that occur an
\* odd number of times: only those secrets matter.
\* ------------------------------------------------------------------------
RECURSIVE Count(_, _)
Count(list, s) ==
  IF Len(list) = 0 THEN 0
  ELSE (IF Head(list) = s THEN 1 ELSE 0) + Count(Tail(list), s)

RECURSIVE OddList(_, _)
\* the secrets s .. MaxPush + 1 that occur an odd number of times in list,
\* once each, in increasing order
OddList(list, s) ==
  IF s > MaxPush + 1 THEN <<>>
  ELSE (IF Count(list, s) % 2 = 1 THEN <<s>> ELSE <<>>) \o OddList(list, s + 1)

\* what the last harness read would return to a participant holding `list`
ReadAgain(list) ==
  read(SynchronizedKeystream(list), <<ksOut[1].sequence>>, ksOut[1].length)

C29_ListAlgebra ==
  ksOut # <<>>
    => \A i \in Peers :
         /\ ksOut[1].out[i] = ReadAgain(Reverse(ksSecrets[i]))
         /\ ksOut[1].out[i] = ReadAgain(OddList(ksSecrets[i], 1))
         /\ \A s \in KsSecrets :
              /\ ksOut[1].out[i] = ReadAgain(ksSecrets[i] \o <<s, s>>)
              /\ ksOut[1].out[i] = ReadAgain(<<s>> \o ksSecrets[i] \o <<s>>)

\* a participant whose list holds one secret twice and another once has read
\* a byte that is not zero
C29_Witness ==
  /\ KsReturned
  /\ ksOut[1].length >= 1
  /\ \E i \in Peers :
       /\ Len(ksSecrets[i]) >= 3
       /\ Len(OddList(ksSecrets[i], 1)) = 1
       /\ ksSecrets[i][1] # ksSecrets[i][3]
       /\ ksOut[1].out[i].value[1].data # 0

\* ------------------------------------------------------------------------
\* C30  Distinctness.  (as claimed) In a group of two or more participants
\* that share pairwise secrets with independent cipher streams, any two
\* distinct participants read different blocks for the same sequence number
\* and length.
\* ------------------------------------------------------------------------
\* the participants that hold a secret
KsGroup == {i \in Peers : ksSecrets[i] # <<>>}

\* the secrets in use
KsUsed == {s \in KsSecrets : \E i \in Peers : Count(ksSecrets[i], s) > 0}

RECURSIVE XorCiphers(_, _)
\* the XOR of the cipher streams of a set of secrets under one nonce
XorCiphers(S, nonce) ==
  IF S = {} THEN 0
  ELSE LET s == CHOOSE x \in S : TRUE
       IN  XorNat(Cipher(nonce, s), XorCiphers(S \ {s}, nonce))

\* every secret is shared by exactly two participants, every two
\* participants of the group share one, and under the nonce of the last
\* read the cipher streams of the secrets are independent: no set of them
\* XORs to zero
PairwiseIndependent ==
  /\ \A s \in KsUsed :
       /\ Cardinality({i \in Peers : Count(ksSecrets[i], s) > 0}) = 2
       /\ \A i \in Peers : Count(ksSecrets[i], s) <= 1
  /\ \A i, j \in KsGroup :
       i # j => \E s \in KsUsed : Count(ksSecrets[i], s) = 1 /\ Count(ksSecrets[j], s) = 1
  /\ \A S \in SUBSET KsUsed :
       S # {} => XorCiphers(S, nonceFor(<<ksOut[1].sequence>>)) # 0

C30_Distinct ==
  (KsReturned /\ Cardinality(KsGroup) >= 2 /\ PairwiseIndependent)
    => \A i, j \in KsGroup :
         i # j => ksOut[1].out[i].value[1] # ksOut[1].out[j].value[1]

\* C30  Distinctness.  (amended) In a group of three or more participants
\* that share pairwise secrets with independent cipher streams, any two
\* distinct participants read different blocks for the same sequence number
\* and the same length of at least one byte.
C30_DistinctFromThree ==
  ( /\ KsReturned
    /\ ksOut[1].length >= 1
    /\ Cardinality(KsGroup) >= 3
    /\ PairwiseIndependent )
    => \A i, j \in KsGroup :
         i # j => ksOut[1].out[i].value[1] # ksOut[1].out[j].value[1]

\* three participants with three independent pairwise secrets have read
\* three different bytes
C30_Witness ==
  /\ KsReturned
  /\ ksOut[1].length >= 1
  /\ Cardinality(KsGroup) >= 3
  /\ PairwiseIndependent
  /\ \A i, j \in KsGroup :
       i # j => ksOut[1].out[i].value[1].data # ksOut[1].out[j].value[1].data

\* ------------------------------------------------------------------------
\* C26  Keystream determinism.  A read of the keystream under test has the
\* outcome of its first read with the same sequence number and length,
\* whatever was read in between and however the caller's array of secrets
\* has changed since the keystream was constructed.
\* ------------------------------------------------------------------------
C26_Determinism ==
  ( /\ kst.first # <<>>
    /\ kst.last[1].sequence = kst.first[1].sequence
    /\ kst.last[1].length = kst.first[1].length )
    => kst.last[1].out = kst.first[1].out

\* the first read was repeated after a read at another sequence number and
\* after the caller pushed onto its array, and returned the same non-zero byte
C26_Witness ==
  /\ kst.first # <<>>
  /\ kst.between
  /\ kst.mutated
  /\ kst.last[1].sequence = kst.first[1].sequence
  /\ kst.last[1].out.thrown = "none"
  /\ kst.last[1].out.value[1].data # 0
  /\ kst.last[1].out = kst.first[1].out
  /\ Len(ksSecrets[kst.src]) > Len(kst.obj[1].keys.items)

\* ------------------------------------------------------------------------
\* Router shorthands.  Participants are named by the bytes of their public
\* keys: a key is in a list, or has a messenger, when a buffer holding its
\* bytes is.
\* ------------------------------------------------------------------------
\* the router of the last handler, before and after it ran
RouterBefore == rt.call.before[1]
RouterAfter == rt.node[rt.call.node]

\* the last handler was given a key or block message off a connection
InboundCall == rt.call.op \in {"key", "block"}

\* pubkey is in the session's otherPubkeys
InMembership(session, pubkey) ==
  \E i \in DOMAIN session.otherPubkeys : session.otherPubkeys[i].bytes = pubkey.bytes

\* a session is registered under groupId and the sender is one of its peers
Admitted(node, groupId, pubkey) ==
  /\ groupId \in DOMAIN node._sessions
  /\ InMembership(node._sessions[groupId], pubkey)

\* the peer has a live messenger
LiveMessenger(node, pubkey) == \E m \in node._messengers : m.bytes = pubkey.bytes

\* the session message a frame carries
Unpacked(frame) ==
  IF frame.channel = "key" THEN KeyMsg(frame.sharedKey)
  ELSE IF frame.channel = "block" THEN BlockMsg(frame.sequenceNumber, frame.block)
  ELSE ErrorMsg(frame.text)

\* the session messages the last handler handed to messengers of pubkey
HandedTo(pubkey) ==
  LET mine(x) == x.to.bytes = pubkey.bytes
      sends == SelectSeq(rt.call.sends, mine)
  IN  [j \in 1 .. Len(sends) |-> Unpacked(sends[j].frame)]

\* ------------------------------------------------------------------------
\* C23  Router isolation.  An inbound key or block message from sender s for
\* group g reaches a session only if a session is registered under g and s is
\* one of its otherPubkeys, and then it is that session; otherwise no session
\* is called and the router replies to s with the text 'unexpected key' or
\* 'unexpected block'.  The sessions of other groups are never touched.
\* ------------------------------------------------------------------------
C23_Isolation ==
  InboundCall =>
    LET g == rt.call.groupId[1]
        s == rt.call.pubkey[1]
    IN  /\ rt.call.method # "none"
             => Admitted(RouterBefore, g, s) /\ rt.call.session = <<g>>
        /\ ~Admitted(RouterBefore, g, s)
             => /\ rt.call.method = "none"
                /\ RouterAfter._sessions = RouterBefore._sessions
                /\ rt.call.sends =
                     <<[to |-> s,
                        frame |-> sendText(IF rt.call.op = "key" THEN "unexpected key"
                                           ELSE "unexpected block")]>>
        /\ \A h \in DOMAIN RouterBefore._sessions \ {g} :
             RouterAfter._sessions[h] = RouterBefore._sessions[h]

\* ------------------------------------------------------------------------
\* C24  Router drain.  sendSessionMessages(g) takes from the queue of a peer
\* exactly the messages it hands to that peer's messenger, oldest first;
\* it empties the queue of every peer that has a live messenger and leaves
\* the queue of a peer without one as it was.
\* ------------------------------------------------------------------------
C24_Drain ==
  (rt.call.op = "sendSessionMessages" /\ rt.call.session # <<>>) =>
    LET g == rt.call.groupId[1]
        before == RouterBefore._sessions[g]
        after == RouterAfter._sessions[g]
    IN  \A i \in DOMAIN before.otherPubkeys :
          LET p == before.otherPubkeys[i]
          IN  /\ before.queues[p] = HandedTo(p) \o after.queues[p]
              /\ LiveMessenger(RouterBefore, p) => after.queues[p] = <<>>
              /\ ~LiveMessenger(RouterBefore, p) => after.queues[p] = before.queues[p]

\* ------------------------------------------------------------------------
\* C25  Wire round trip.  A key message that a router's sendSessionMessages(g)
\* sent arrives at the receiver's session registered under g as
\* receiveKey(sender, the same key); a block message written for group g as
\* BlockMessageEncoding lays it out arrives at that session as
\* receiveBlock(sender, the same sequence number, the same block).
\* ------------------------------------------------------------------------
C25_RoundTrip ==
  ( /\ InboundCall
    /\ rt.call.op = "key" => rt.call.wire
    /\ Admitted(RouterBefore, JsInt(rt.call.groupId[1].v), rt.call.pubkey[1]) )
    => /\ rt.call.session = <<JsInt(rt.call.groupId[1].v)>>
       /\ rt.call.op = "key"
            => /\ rt.call.method = "receiveKey"
               /\ rt.call.args = <<rt.call.pubkey[1], rt.call.message[1].sharedKey>>
       /\ rt.call.op = "block"
            => /\ rt.call.method = "receiveBlock"
               /\ rt.call.args = <<rt.call.pubkey[1], rt.call.message[1].sequenceNumber,
                                   rt.call.message[1].block>>


\* ------------------------------------------------------------------------
\* C31  Sender hiding.  Two runs of round 0 that differ only in which
\* participant supplied which message give every participant the same
\* result: once round 0 has all its inputs everywhere, every participant has
\* a round-0 result, and it is the result of the run in which any two
\* participants a and b have exchanged their messages.
\* ------------------------------------------------------------------------
\* the messages of the run in which a and b exchanged theirs
Exchanged(list, a, b) ==
  [p \in DOMAIN list |-> IF p = a THEN list[b] ELSE IF p = b THEN list[a] ELSE list[p]]

\* the round-0 result of p: the first it popped, or the oldest still queued
FirstResult(p) ==
  IF Len(taken[p]) > 0 THEN <<taken[p][1]>>
  ELSE IF Len(sess[p].results) > 0 THEN <<sess[p].results[1]>>
  ELSE <<>>

C31_SenderHiding ==
  ((\A p \in Peers : KeyExchangeDone(p) /\ offered[p] # <<>>) /\ NothingInFlight)
    => \A p \in Peers :
         /\ FirstResult(p) # <<>>
         /\ \A a, b \in Peers : FirstResult(p) = xor_all(Exchanged(OfferedList, a, b))


\* ------------------------------------------------------------------------
\* C32  Validation order of receiveBlock.  The round window is tested first,
\* then the size, then the duplicate: a block that is not BLOCK_SIZE long is
\* answered with exactly one error and nothing else changes, the error being
\* 'block is for an unacceptable round' when its sequence number is out of
\* the window and 'block is the wrong size' otherwise, whether or not the
\* peer already has a block in that round.
\* ------------------------------------------------------------------------
C32_ValidationOrder ==
  (call.op = "receiveBlock" /\ call.length # BLOCK_SIZE)
    => /\ call.thrown = "none"
       /\ sess[call.self] =
            Enqueue(pre, call.from,
                    IF OutOfWindow(pre, call.sequenceNumber) THEN UnacceptableRound
                    ELSE WrongSize)


\* ------------------------------------------------------------------------
\* C33  Round record invariant.  In every state the theirBlocks of both
\* rounds are keyed only by peers of the session and hold BLOCK_SIZE blocks
\* only; a round holds one block for a peer whose block it was given, and a
\* call that retires no round leaves every stored block as it was.
\* ------------------------------------------------------------------------
MembersOf(s) == {s.otherPubkeys[i] : i \in DOMAIN s.otherPubkeys}

\* round record r of session s has peers' blocks of the right size only
WellFormedRound(s, r) ==
  /\ DOMAIN r.theirBlocks \subseteq MembersOf(s)
  /\ \A k \in DOMAIN r.theirBlocks : r.theirBlocks[k].length = BLOCK_SIZE

\* the blocks of r are still in r1
Kept(r, r1) ==
  \A k \in DOMAIN r.theirBlocks :
    k \in DOMAIN r1.theirBlocks /\ r1.theirBlocks[k] = r.theirBlocks[k]

ErrorTexts ==
  {"public key already received", "block is for an unacceptable round",
   "block is already here", "block is the wrong size"}

\* the last call was an inbound call that its session has to reject
RejectedCall ==
  \/ call.op = "receiveKey" /\ pre.theirSharedKeys[call.from] # <<>>
  \/ /\ call.op = "receiveBlock"
     /\ ~Acceptable(pre, call.from, call.sequenceNumber, call.length)

C34_ErrorsToOffender ==
  RejectedCall
    => \E text \in ErrorTexts :
         sess[call.self] = Enqueue(pre, call.from, ErrorMsg(text))


\* ------------------------------------------------------------------------
\* C35  No cascading advance.  The round that advanceRound makes current has
\* no local block, so it is not complete: so it is after the receiveKey that
\* brings the last key, which advances into round 0, and after every call
\* that advanced.  An inbound call or a participateInRound call appends at
\* most one result and raises the current sequence number by at most 1.
\* ------------------------------------------------------------------------
\* the current sequence number of s, -1 before round 0
CurrentNumber(s) ==
  IF s.currentRound = <<>> THEN -1 ELSE s.currentRound[1].sequenceNumber

\* the last call advanced the round of its session
Advanced ==
  /\ call.self \in Peers
  /\ \/ LastKeyCall
     \/ CurrentNumber(sess[call.self]) # CurrentNumber(pre)

QueuedIn(s) ==
  UNION {{s.queues[k][i] : i \in DOMAIN s.queues[k]} : k \in DOMAIN s.queues}

C37_Progress ==
  \A p \in Peers :
    /\ <>(sess[p].currentRound # <<>>)
    /\ \A r \in 0 .. MaxSeq : <>(Len(taken[p]) > r)


\* ------------------------------------------------------------------------
\* C38  Key exchange is write-once and sent once.  Over its whole life a
\* session enqueues exactly one key message per peer, the one of its
\* construction; ourSharedKeys never changes; and a theirSharedKeys entry
\* that is set never changes.
\* ------------------------------------------------------------------------
\* every message p's session has enqueued for q: those its caller popped and
\* those still queued
EverQueued(p, q) == sent[p][q] \o sess[p].queues[q]

KeyMessagesIn(q) == {i \in DOMAIN q : q[i].type = "key"}

C38_KeysWriteOnce ==
  /\ \A p \in Peers :
       /\ sess[p].ourSharedKeys = [q \in Others(p) |-> randomBytes(p, q)]
       /\ \A q \in Others(p) :
            /\ KeyMessagesIn(EverQueued(p, q)) = {1}
            /\ EverQueued(p, q)[1] = KeyMsg(sess[p].ourSharedKeys[q])
  /\ call.self \in Peers
       => \A q \in Others(call.self) :
            pre.theirSharedKeys[q] # <<>>
              => sess[call.self].theirSharedKeys[q] = pre.theirSharedKeys[q]

\* a session whose caller has popped the key message for a peer has stored
\* that peer's key and has just turned down a second key from it
C38_Witness ==
  /\ call.op = "receiveKey"
  /\ pre.theirSharedKeys[call.from] # <<>>
  /\ sess[call.self].theirSharedKeys[call.from] = pre.theirSharedKeys[call.from]
  /\ Len(sent[call.self][call.from]) > 0
  /\ sent[call.self][call.from][1] = KeyMsg(sess[call.self].ourSharedKeys[call.from])
  /\ KeyMessagesIn(sess[call.self].queues[call.from]) = {}


\* ------------------------------------------------------------------------
\* C39  Messenger table.  A router holds at most one messenger per peer
\* public key; a 'connection' event for a key that has a messenger raises
\* 'Duplicate connection!' and leaves the table as it was; after a
\* connection's 'close' its peer has no messenger, and sendSessionMessages
\* leaves the queue of a peer without a messenger as it was.
\* ------------------------------------------------------------------------
C39_MessengerTable ==
  /\ \A n \in Nodes : \A a, b \in rt.node[n]._messengers : a.bytes = b.bytes => a = b
  /\ (rt.call.op = "connection" /\ LiveMessenger(RouterBefore, rt.call.pubkey[1]))
       => /\ rt.call.thrown = "Error: Duplicate connection!"
          /\ RouterAfter._messengers = RouterBefore._messengers
  /\ rt.call.op = "close" => ~LiveMessenger(RouterAfter, rt.call.pubkey[1])
  /\ (rt.call.op = "sendSessionMessages" /\ rt.call.session # <<>>)
       => LET before == RouterBefore._sessions[rt.call.groupId[1]]
              after == RouterAfter._sessions[rt.call.groupId[1]]
          IN  \A i \in DOMAIN before.otherPubkeys :
                ~LiveMessenger(RouterBefore, before.otherPubkeys[i])
                  => after.queues[before.otherPubkeys[i]]
                       = before.queues[before.otherPubkeys[i]]


====
